---- MODULE Spec2Model ----
(***************************************************************************)
(* A model of knockout-decorators (dist/knockout-decorators.esm.js and     *)
(* src/knockout-decorators.ts): the array materializer and method          *)
(* interceptor, the subscription manager with the Disposable mixin, the    *)
(* extender chain, the scalar properties, the deep walk over records and   *)
(* arrays, and the derived and event properties.                           *)
(*                                                                         *)
(* JavaScript is single threaded and every handler runs to completion, so  *)
(* each action below is one top-level call of client code, computed        *)
(* big-step: the nested calls it makes (the knockout cell operation, the   *)
(* native array method, the subscriber callbacks) are evaluated inside     *)
(* the action by the operators it uses.  A raised exception is the field   *)
(* "raised" of the evaluation record: once set, the remaining statements   *)
(* of every enclosing function are skipped, as in the code (no function    *)
(* of the library has a try/finally).                                      *)
(*                                                                         *)
(* The knockout primitives (observable, observableArray, computed,         *)
(* subscribable) are an external library.  They are modelled here as the   *)
(* library calls them, by what knockout 3.x does: a write notifies         *)
(* "beforeChange", stores, then notifies "change"; an observableArray      *)
(* method notifies "beforeChange", calls the method of the same name on    *)
(* the underlying array, then notifies "change"; notifySubscribers walks   *)
(* a snapshot of the subscriptions in subscription order, skips the        *)
(* disposed ones and does not catch what a callback throws.                *)
(***************************************************************************)
EXTENDS Integers, Sequences, FiniteSets, TLC

(* ------------------------------ bounds -------------------------------- *)
\* longest array the model builds
MaxLen == 3
\* array elements are the numbers 1..MaxVal
MaxVal == 2
\* array objects the client code can hold at once
NArr == 2
\* subscribers of the array cells, all cells together
MaxSubs == 2
\* depth of the JavaScript call stack (what a RangeError stands for)
MaxDepth == 4

Values == 1..MaxVal
ArrIds == 1..NArr
\* two array-reactive properties: property 1 is shallow, property 2 is deep
Cells == {1, 2}
DeepOf(c) == c = 2

\* the value null, the one non-array value the model assigns
Null == 0
\* the private [] that ko.observableArray() holds before the first write
InternalEmpty == -1

VARIABLES
    heap,     \* the array objects:  [alloc, elems, marker, methods, closure, origin]
    cells,    \* the array cells:    [mat, val, inside, subs, bsubs, asubs, born]
    plain,    \* per cell, a plain copy of the assigned array with the same calls applied
    last,     \* what the last top-level call was and what it was seen to do
    gen,      \* the generation of the library: the built bundle or the TypeScript sources
    hs,       \* the subscription handles, in the order subscribe() made them
    obs,      \* the value of the observable the dependency expressions read
    dset,     \* the instance's Disposal Set: [present, list]
    seen,     \* what the last dispose() of the instance was seen to do
    tables,   \* per prototype, its own extender table, if it has one
    lists,    \* the Extenders arrays the tables hold, by identity
    regs,     \* how many extenders have been registered
    made,     \* the extenders applied to the last cell made
    opt,      \* observableArrayOption, deepObservableOption, exposeObservableOption
    copt,     \* computedDecoratorOptions
    decs,     \* the decorators client code holds, and the options each was asked for
    dapp,     \* the last application of a decorator: what the property closes over
    sp,       \* the scalar properties of the instance: [own, born, val, subs]
    written,  \* per scalar property, the value client code wrote last
    got,      \* what the last read or write of a property was seen to do
    objs,     \* the objects client code has built: records, class instances, arrays
    dp,       \* the deep scalar property p of the instance: [own, val]
    dq,       \* the deep array property q of the instance: [own, val, inside, subs]
    ws,       \* the hidden computeds that read instance.p.a.b, and their callbacks
    dseen,    \* the last call on the object graph: its name, whether it raised,
              \* and per hidden computed the runs of its callback
    phase,    \* the class with the derived properties: defining, defined or failed
    acc,      \* the accessors of the derived keys, on the prototype and on the instances
    ncells,   \* per instance and derived key, the memoized cells made so far
    xs,       \* per instance, the observable x its getters read
    evt,      \* per instance, its event property: [own, made, fn, subs]
    lseen,    \* what the last decoration, read, write or event call was seen to do
    unw       \* what the last unwrap(instance, key) was seen to do

\* the value undefined, which a new ko.observable() holds
Undefined == -3

\* an access record: the value a read returned, or the error raised and the
\* property it names; the change notifications a write delivered
NoAccess == [op |-> "none", kind |-> "none", k |-> "none", c |-> 0, v |-> Undefined,
             raised |-> FALSE, names |-> "none", ret |-> Undefined, fired |-> <<>>]

arrVars == <<heap, cells, plain, last>>
subVars == <<gen, hs, obs, dset, seen>>
decVars == <<opt, copt, decs, dapp>>
extVars == <<tables, lists, regs, made, decVars>>
propVars == <<sp, written, got>>
deepVars == <<objs, dp, dq, ws, dseen>>
lazyVars == <<phase, acc, ncells, xs, evt, lseen, unw>>
moreVars == <<propVars, deepVars, lazyVars>>

\* what a call on an array property or on an array leaves alone
ArrayStep ==
    got' = NoAccess /\ UNCHANGED <<subVars, extVars, sp, written, deepVars, lazyVars>>

(* ------------------------ native array methods ------------------------ *)
Min(a, b) == IF a < b THEN a ELSE b
Max(a, b) == IF a < b THEN b ELSE a

RECURSIVE SeqRev(_)
SeqRev(s) == IF s = <<>> THEN <<>> ELSE Append(SeqRev(Tail(s)), Head(s))

RECURSIVE Zeros(_)
Zeros(n) == IF n = 0 THEN <<>> ELSE Append(Zeros(n - 1), 0)

RECURSIVE UpTo(_)
UpTo(n) == IF n = 0 THEN <<>> ELSE Append(UpTo(n - 1), n)

\* String(n) of a non-negative integer, as its decimal digits
RECURSIVE DecDigits(_)
DecDigits(n) == IF n < 10 THEN <<n>> ELSE Append(DecDigits(n \div 10), n % 10)

RECURSIVE LexLess(_, _)
LexLess(s, t) ==
    IF t = <<>> THEN FALSE
    ELSE IF s = <<>> THEN TRUE
    ELSE IF Head(s) # Head(t) THEN Head(s) < Head(t)
    ELSE LexLess(Tail(s), Tail(t))

\* the default sort order: by the elements' string forms
StrLess(a, b) == LexLess(DecDigits(a), DecDigits(b))

RECURSIVE InsertSorted(_, _)
InsertSorted(s, x) ==
    IF s = <<>> THEN <<x>>
    ELSE IF StrLess(x, Head(s)) THEN <<x>> \o s
    ELSE <<Head(s)>> \o InsertSorted(Tail(s), x)

RECURSIVE DefaultSort(_)
DefaultSort(s) ==
    IF s = <<>> THEN <<>>
    ELSE InsertSorted(DefaultSort(SubSeq(s, 1, Len(s) - 1)), s[Len(s)])

\* Array.prototype.splice: the start index, clamped
SpliceStart(s, args) ==
    IF Len(args) = 0 THEN 0
    ELSE IF args[1] < 0 THEN Max(Len(s) + args[1], 0)
    ELSE Min(args[1], Len(s))

\* Array.prototype.splice: how many elements go
SpliceCount(s, args) ==
    IF Len(args) = 0 THEN 0
    ELSE IF Len(args) = 1 THEN Len(s) - SpliceStart(s, args)
    ELSE Min(Max(args[2], 0), Len(s) - SpliceStart(s, args))

SpliceItems(args) == IF Len(args) <= 2 THEN <<>> ELSE SubSeq(args, 3, Len(args))

\* ArrayPrototype[fnName].apply(array, arguments): the contents afterwards
NativeArr(m, args, s) ==
    CASE m = "push"    -> s \o args
      [] m = "pop"     -> IF s = <<>> THEN s ELSE SubSeq(s, 1, Len(s) - 1)
      [] m = "shift"   -> IF s = <<>> THEN s ELSE Tail(s)
      [] m = "unshift" -> args \o s
      [] m = "splice"  -> SubSeq(s, 1, SpliceStart(s, args))
                          \o SpliceItems(args)
                          \o SubSeq(s, SpliceStart(s, args) + SpliceCount(s, args) + 1, Len(s))
      [] m = "reverse" -> SeqRev(s)
      [] m = "sort"    -> DefaultSort(s)

\* ArrayPrototype[fnName].apply(array, arguments): the value returned
NativeRet(m, args, s) ==
    CASE m = "push"    -> [t |-> "num", n |-> Len(s) + Len(args)]
      [] m = "unshift" -> [t |-> "num", n |-> Len(s) + Len(args)]
      [] m = "pop"     -> IF s = <<>> THEN [t |-> "undefined"]
                          ELSE [t |-> "num", n |-> s[Len(s)]]
      [] m = "shift"   -> IF s = <<>> THEN [t |-> "undefined"]
                          ELSE [t |-> "num", n |-> s[1]]
      [] m = "splice"  -> [t |-> "seq",
                           s |-> SubSeq(s, SpliceStart(s, args) + 1,
                                        SpliceStart(s, args) + SpliceCount(s, args))]
      [] m = "reverse" -> [t |-> "array"]
      [] m = "sort"    -> [t |-> "array"]

\* the position of the first element equal to v, 0 when there is none
IndexOf(elems, v) ==
    IF \E i \in 1..Len(elems) : elems[i] = v
    THEN CHOOSE i \in 1..Len(elems) : elems[i] = v /\ \A j \in 1..(i - 1) : elems[j] # v
    ELSE 0

\* what a mutator that stores x at index i leaves in the array (x is added
\* at the end when i is the length)
Mutator(els, i, x) ==
    IF i = Len(els) THEN Append(els, x)
    ELSE SubSeq(els, 1, i) \o <<x>> \o SubSeq(els, i + 2, Len(els))

\* array[0] of the array a call has returned
ElementZero(ret) ==
    IF ret.t = "seq" /\ ret.s # <<>> THEN [t |-> "num", n |-> ret.s[1]]
    ELSE [t |-> "undefined"]

(* --------------------------- method tables ---------------------------- *)
deepArrayMethods == {"pop", "reverse", "shift", "sort"}
allArrayMethods == deepArrayMethods \cup {"push", "splice", "unshift"}
deepObservableArrayMethods ==
    {"remove", "removeAll", "destroy", "destroyAll", "replace", "subscribe"}
allObservableArrayMethods == deepObservableArrayMethods \cup {"replace"}
allMethods == allArrayMethods \cup allObservableArrayMethods \cup {"mutate", "set"}

\* the own methods patchArrayMethods defines on an array
PatchedMethods(deep) ==
    IF deep
    THEN deepArrayMethods \cup deepObservableArrayMethods
         \cup {"push", "unshift", "splice", "replace", "mutate", "set"}
    ELSE allArrayMethods \cup allObservableArrayMethods \cup {"mutate", "set"}

(* ------------------- evaluation of one top-level call ------------------ *)
(* An evaluation record w holds the heap and the cells as the call has     *)
(* left them so far, what the call has notified (fired[c][i]: change       *)
(* notifications delivered to subscriber i of cell c; changed[c] and       *)
(* before[c]: change and beforeChange notifications of cell c), the value  *)
(* returned and whether an exception is propagating.  Three fields only    *)
(* record what happened: nested (the calls the subscribers made on the     *)
(* array), lowered (a cell operation ran, or ended, with insideObsArray    *)
(* false) and reentered (the cell called an override that entered the      *)
(* cell again).                                                            *)

IsArr(v) == v \in ArrIds

Start(h, cs) ==
    [heap |-> h, cells |-> cs,
     fired |-> [c \in Cells |-> Zeros(Len(cs[c].subs))],
     changed |-> [c \in Cells |-> 0],
     before |-> [c \in Cells |-> 0],
     ret |-> [t |-> "undefined"],
     raised |-> FALSE, error |-> "none",
     nested |-> {}, lowered |-> FALSE, reentered |-> FALSE]

Raise(w) == [w EXCEPT !.raised = TRUE]

\* F applied to the value of x, which is computed once however often F
\* reads it: the statements of the source run one after the other
Then(x, F(_)) == CHOOSE r \in {F(v) : v \in {x}} : TRUE

\* the statement after a call: skipped when the call has thrown
AndThen(x, F(_)) == Then(x, LAMBDA w : IF w.raised THEN w ELSE F(w))

\* the stack is exhausted
RangeError(w) == [w EXCEPT !.raised = TRUE, !.error = "RangeError"]

\* a call of something that is not a function, or on null
TypeError(w) == [w EXCEPT !.raised = TRUE, !.error = "TypeError"]

SetInside(w, c, b) == [w EXCEPT !.cells[c].inside = b]

\* typeof value !== "object" for the numbers the arrays hold: stored as is
PrepareDeepValue(v) == v

RECURSIVE PrepareDeepArgs(_, _)
PrepareDeepArgs(args, from) ==
    IF args = <<>> THEN <<>>
    ELSE <<IF from <= 1 THEN PrepareDeepValue(Head(args)) ELSE Head(args)>>
             \o PrepareDeepArgs(Tail(args), from - 1)

\* ArrayPrototype[fnName].apply(array, arguments)
NativeCall(w, a, m, args) ==
    [w EXCEPT !.heap[a].elems = NativeArr(m, args, w.heap[a].elems),
              !.ret = NativeRet(m, args, w.heap[a].elems)]

RECURSIVE CallMethod(_, _, _, _, _)

\* the arguments of the calls the subscribers of the model make on the array
\* of their property: push(1), and remove(x) of an x no array holds
NestedArgs(kind) == IF kind = "push" THEN <<1>> ELSE <<MaxVal + 1>>

\* a subscriber callback of cell c: "count" returns, "throw" throws, "push"
\* calls instance.key.push(1), "remove" calls instance.key.remove(x)
ClientCallback(w, c, kind, depth) ==
    IF kind = "throw" THEN Raise(w)
    ELSE IF kind \notin {"push", "remove"} THEN w
    ELSE IF ~IsArr(w.cells[c].val) THEN TypeError(w)
    ELSE Then(CallMethod(w, w.cells[c].val, kind, NestedArgs(kind), depth - 1),
              LAMBDA w1 :
                 [w1 EXCEPT !.ret = w.ret,
                            !.nested = @ \cup {[m |-> kind,
                                                 inside |-> w.cells[c].inside,
                                                 changed |-> w1.changed[c] - w.changed[c],
                                                 raised |-> w1.raised]}])

\* subscribable.notifySubscribers(value, "change") of cell c, from subscriber i on:
\* in subscription order; a callback that throws ends the walk
RECURSIVE NotifyFrom(_, _, _, _)
NotifyFrom(w, c, i, depth) ==
    IF i > Len(w.cells[c].subs) THEN w
    ELSE AndThen(ClientCallback([w EXCEPT !.fired[c][i] = @ + 1], c,
                                w.cells[c].subs[i], depth),
                 LAMBDA w1 : NotifyFrom(w1, c, i + 1, depth))

\* subscribable.notifySubscribers(value, "beforeChange") of cell c
RECURSIVE NotifyBefore(_, _, _, _)
NotifyBefore(w, c, i, depth) ==
    IF i > Len(w.cells[c].bsubs) THEN w
    ELSE AndThen(ClientCallback(w, c, w.cells[c].bsubs[i], depth),
                 LAMBDA w1 : NotifyBefore(w1, c, i + 1, depth))

\* observable.valueHasMutated()
ValueHasMutated(w, c, depth) ==
    NotifyFrom([w EXCEPT !.changed[c] = @ + 1], c, 1, depth)

\* observable.valueWillMutate()
ValueWillMutate(w, c, depth) ==
    NotifyBefore([w EXCEPT !.before[c] = @ + 1], c, 1, depth)

\* the observable's equalityComparer: only primitives can be equal
IsDifferent(old, new) == IF old = Null THEN old # new ELSE TRUE

\* obsArray(newValue): the write of a knockout observable
KoWrite(w, c, v, depth) ==
    IF IsDifferent(w.cells[c].val, v)
    THEN AndThen(ValueWillMutate(w, c, depth), LAMBDA w1 :
             ValueHasMutated([w1 EXCEPT !.cells[c].val = v], c, depth))
    ELSE w

\* a cell operation starts: is insideObsArray set?
Enter(w, c) == [w EXCEPT !.lowered = @ \/ ~w.cells[c].inside]

\* the cell calls array[m]: does the call find an override that will enter
\* the cell again?
Reenter(w, a, m) ==
    [w EXCEPT !.reentered =
        @ \/ (m \in w.heap[a].methods /\ ~w.cells[w.heap[a].closure].inside)]

\* ko.observableArray.fn[fnName]: valueWillMutate, the method of the same name
\* on the underlying array, valueHasMutated; reverse and sort return the cell
KoArrayMethod(w, c, m, args, depth) ==
    IF ~IsArr(w.cells[c].val) THEN TypeError(w)
    ELSE AndThen(ValueWillMutate(Enter(w, c), c, depth), LAMBDA w0 :
         AndThen(CallMethod(Reenter(w0, w0.cells[c].val, m), w0.cells[c].val,
                            m, args, depth - 1), LAMBDA w1 :
         AndThen(ValueHasMutated(w1, c, depth), LAMBDA w2 :
             IF w2.ret = [t |-> "array"] THEN [w2 EXCEPT !.ret = [t |-> "cell"]]
             ELSE w2)))

\* insideObsArray = false, after the cell operation has returned
Leave(x, c) ==
    AndThen(x, LAMBDA w : [w EXCEPT !.cells[c].inside = FALSE,
                                    !.lowered = @ \/ ~w.cells[c].inside])

\* an override without the insideObsArray test
ArrayMethodOverrideUnguarded(w, a, c, m, args, depth) ==
    Leave(KoArrayMethod(SetInside(w, c, TRUE), c, m, args, depth), c)

\* the override shared by the array methods (and by pop, reverse, shift and
\* sort in deep mode)
ArrayMethodOverride(w, a, c, m, args, depth) ==
    IF w.cells[c].inside THEN NativeCall(w, a, m, args)
    ELSE Leave(KoArrayMethod(SetInside(w, c, TRUE), c, m, args, depth), c)

\* the deep overrides of push and unshift
DeepInsertOverride(w, a, c, m, args, depth) ==
    IF w.cells[c].inside THEN NativeCall(w, a, m, args)
    ELSE Leave(KoArrayMethod(SetInside(w, c, TRUE), c, m,
                             PrepareDeepArgs(args, 1), depth), c)

\* the deep override of splice: with four arguments or more the prepared
\* copy is built and the original arguments are applied
DeepSpliceOverride(w, a, c, args, depth) ==
    IF w.cells[c].inside THEN NativeCall(w, a, "splice", args)
    ELSE Leave(KoArrayMethod(SetInside(w, c, TRUE), c, "splice",
                             IF Len(args) = 3 THEN PrepareDeepArgs(args, 3) ELSE args,
                             depth), c)

\* ko.observableArray.fn[fnName] of the cell's structural methods, and
\* subscribable.fn.subscribe(callback, target, "arrayChange")
\* the loop of ko.observableArray.fn.remove from index i on: the first match
\* calls valueWillMutate, every match is taken out with
\* underlyingArray.splice(i, 1) and added to the values removed (w.ret)
RECURSIVE RemoveFrom(_, _, _, _, _)
RemoveFrom(w, c, x, i, depth) ==
    IF i >= Len(w.heap[w.cells[c].val].elems) THEN w
    ELSE IF w.heap[w.cells[c].val].elems[i + 1] # x
    THEN RemoveFrom(w, c, x, i + 1, depth)
    ELSE AndThen(IF w.ret.s = <<>> THEN ValueWillMutate(w, c, depth) ELSE w,
                 LAMBDA w1 :
         AndThen(CallMethod(Reenter(w1, w1.cells[c].val, "splice"), w1.cells[c].val,
                            "splice", <<i, 1>>, depth - 1), LAMBDA w2 :
             RemoveFrom([w2 EXCEPT !.ret = [t |-> "seq", s |-> Append(w1.ret.s, x)]],
                        c, x, i, depth)))

\* ko.observableArray.fn.remove(x): valueHasMutated when something was removed
KoRemove(w, c, x, depth) ==
    IF ~IsArr(w.cells[c].val) THEN TypeError(w)
    ELSE AndThen(RemoveFrom([Enter(w, c) EXCEPT !.ret = [t |-> "seq", s |-> <<>>]],
                            c, x, 0, depth), LAMBDA w1 :
             IF w1.ret.s = <<>> THEN w1 ELSE ValueHasMutated(w1, c, depth))

\* ko.observableArray.fn.removeAll(): valueWillMutate,
\* underlyingArray.splice(0, length), valueHasMutated; it returns the values
KoRemoveAll(w, c, depth) ==
    IF ~IsArr(w.cells[c].val) THEN TypeError(w)
    ELSE AndThen(ValueWillMutate(Enter(w, c), c, depth), LAMBDA w1 :
         AndThen(CallMethod(Reenter(w1, w1.cells[c].val, "splice"), w1.cells[c].val,
                            "splice", <<0, Len(w1.heap[w1.cells[c].val].elems)>>,
                            depth - 1), LAMBDA w2 :
         AndThen(ValueHasMutated(w2, c, depth), LAMBDA w3 :
             [w3 EXCEPT !.ret = [t |-> "seq", s |-> w.heap[w.cells[c].val].elems]])))

\* ko.observableArray.fn.replace(oldItem, newItem): where indexOf finds the
\* old item, valueWillMutate, the assignment, valueHasMutated
KoReplaceItem(w, c, old, new, depth) ==
    IF ~IsArr(w.cells[c].val) THEN TypeError(w)
    ELSE IF IndexOf(w.heap[w.cells[c].val].elems, old) = 0
    THEN [w EXCEPT !.ret = [t |-> "undefined"]]
    ELSE AndThen(ValueWillMutate(Enter(w, c), c, depth), LAMBDA w1 :
             ValueHasMutated(
                 [w1 EXCEPT !.heap[w1.cells[c].val].elems =
                                Mutator(@, IndexOf(@, old) - 1, new),
                            !.ret = [t |-> "undefined"]], c, depth))

KoStructuralMethod(w, c, m, args, depth) ==
    CASE m = "subscribe" -> [w EXCEPT !.cells[c].asubs = @ + 1]
      [] m = "remove" -> KoRemove(w, c, args[1], depth)
      [] m = "removeAll" /\ args = <<>> -> KoRemoveAll(w, c, depth)
      [] m = "removeAll" /\ args # <<>> -> KoRemove(w, c, args[1], depth)
      [] m = "replace" ->
            KoReplaceItem(w, c, args[1],
                          IF DeepOf(c) THEN PrepareDeepValue(args[2]) ELSE args[2], depth)
      [] OTHER -> w

\* array.mutate(mutator), where the mutator stores x at index i: in deep mode
\* every element is prepared afterwards
MutateOverride(w, a, c, args, depth) ==
    IF ~IsArr(w.cells[c].val) THEN TypeError(w)
    ELSE AndThen(ValueWillMutate(Enter(w, c), c, depth), LAMBDA w1 :
             ValueHasMutated(
                 [w1 EXCEPT !.heap[IF DeepOf(c) THEN w.cells[c].val
                                   ELSE w1.cells[c].val].elems =
                                IF DeepOf(c)
                                THEN PrepareDeepArgs(Mutator(@, args[1], args[2]), 1)
                                ELSE Mutator(@, args[1], args[2]),
                            !.ret = [t |-> "undefined"]], c, depth))

\* a set that returns the array of the removed elements
SetOverrideWhole(w, a, c, args, depth) ==
    KoArrayMethod(w, c, "splice",
                  <<args[1], 1, IF DeepOf(c) THEN PrepareDeepValue(args[2])
                                ELSE args[2]>>, depth)

\* array.set(index, newItem): obsArray.splice(index, 1, newItem)[0]
SetOverride(w, a, c, args, depth) ==
    AndThen(KoArrayMethod(w, c, "splice",
                          <<args[1], 1, IF DeepOf(c) THEN PrepareDeepValue(args[2])
                                        ELSE args[2]>>, depth),
            LAMBDA w1 : [w1 EXCEPT !.ret = ElementZero(w1.ret)])

\* the override shared by the cell's structural methods
\* (observableArrayMethods): it does not test insideObsArray
ObservableArrayOverride(w, a, c, m, args, depth) ==
    Leave(KoStructuralMethod(SetInside(w, c, TRUE), c, m, args, depth), c)

\* array[m](...args): the own method when the array has one, else the native
CallMethod(w, a, m, args, depth) ==
    IF depth = 0 THEN RangeError(w)
    ELSE IF m \notin w.heap[a].methods
    THEN IF m \in allArrayMethods THEN NativeCall(w, a, m, args) ELSE TypeError(w)
    ELSE LET c == w.heap[a].closure IN
         IF m \in allObservableArrayMethods
         THEN ObservableArrayOverride(w, a, c, m, args, depth)
         ELSE IF m = "mutate" THEN MutateOverride(w, a, c, args, depth)
         ELSE IF m = "set" THEN SetOverride(w, a, c, args, depth)
         ELSE IF DeepOf(c) /\ m \in {"push", "unshift"}
         THEN DeepInsertOverride(w, a, c, m, args, depth)
         ELSE IF DeepOf(c) /\ m = "splice"
         THEN DeepSpliceOverride(w, a, c, args, depth)
         ELSE ArrayMethodOverride(w, a, c, m, args, depth)

(* ------------------------- the property setter ------------------------ *)
\* origin and stripped only record where an array came from: the array it was
\* sliced from, and whether a setter has taken the marker off it
Blank == [alloc |-> FALSE, elems |-> <<>>, marker |-> FALSE, methods |-> {},
          closure |-> 0, origin |-> 0, stripped |-> FALSE]

\* a setter that leaves the marker on the array it detaches
DeleteMarkerForgotten(w, a) == [w EXCEPT !.heap[a].stripped = TRUE]

\* delete lastValue[PATCHED_KEY]
DeleteMarker(w, a) == [w EXCEPT !.heap[a].marker = FALSE, !.heap[a].stripped = TRUE]

\* a setter that clears the cell's structural methods and leaves the array
\* methods on the array it detaches
DeleteMethodsPartly(w, a) ==
    [w EXCEPT !.heap[a].methods = @ \ (allObservableArrayMethods \cup {"mutate", "set"})]

\* allMethods.forEach(fnName => delete lastValue[fnName])
DeleteMethods(w, a) ==
    [w EXCEPT !.heap[a].methods = @ \ allMethods,
              !.heap[a].closure = IF w.heap[a].methods \subseteq allMethods THEN 0 ELSE @]

\* newValue.slice(): a new array object with the same elements and no own
\* property of the old one
CloneArray(w, v, free) ==
    [w EXCEPT !.heap[free] = [Blank EXCEPT !.alloc = TRUE,
                                           !.elems = w.heap[v].elems,
                                           !.origin = v]]

\* a setter that never clones
MustCloneNever(w, v) == FALSE

\* hasOwnProperty(newValue, PATCHED_KEY): the array is wired to a property
MustClone(w, v) == w.heap[v].marker

\* newValue[i] = prepareDeepValue(newValue[i], expose), for every i
PrepareDeepElems(w, a) ==
    [w EXCEPT !.heap[a].elems = PrepareDeepArgs(@, 1)]

\* defineProperty(newValue, PATCHED_KEY, {value: true})
SetMarker(w, a) == [w EXCEPT !.heap[a].marker = TRUE, !.heap[a].stripped = FALSE]

\* patchArrayMethods(array): own methods closed over cell c
PatchArrayMethods(w, a, c) ==
    [w EXCEPT !.heap[a].methods = @ \cup PatchedMethods(DeepOf(c)),
              !.heap[a].closure = c]

\* function setter(newValue) of defineObservableArray
Setter(w, c, newValue, free) ==
    LET lastValue == w.cells[c].val
        changed == lastValue # newValue
        w1 == IF changed /\ IsArr(lastValue) /\ w.heap[lastValue].marker
              THEN DeleteMethods(DeleteMarker(w, lastValue), lastValue)
              ELSE w
        cloned == changed /\ IsArr(newValue) /\ MustClone(w1, newValue)
        nv == IF cloned THEN free ELSE newValue
        w2 == IF cloned THEN CloneArray(w1, newValue, free) ELSE w1
        w3 == IF changed /\ IsArr(newValue)
              THEN PatchArrayMethods(
                       SetMarker(IF DeepOf(c) THEN PrepareDeepElems(w2, nv) ELSE w2, nv),
                       nv, c)
              ELSE w2
    IN  Leave(KoWrite(SetInside(w3, c, TRUE), c, nv, MaxDepth), c)

\* defineObservableArray: the first write creates the cell, then runs the setter
DefineObservableArray(w, c, value, free) ==
    Setter([w EXCEPT !.cells[c] = [mat |-> TRUE, val |-> InternalEmpty,
                                   inside |-> FALSE, subs |-> <<>>,
                                   bsubs |-> <<>>, asubs |-> 0,
                                   born |-> w.cells[c].born + 1]],
           c, value, free)

(* ------------------------------ actions ------------------------------- *)
Methods == allArrayMethods

\* the argument lists the model calls a method with
ArgsOf(m) ==
    IF m \in {"push", "unshift"} THEN {<<>>, <<1>>, <<2, 1>>}
    ELSE IF m = "splice"
    THEN {<<>>, <<-1>>, <<1, 1>>, <<0, 1, 2>>, <<0, 2, 2, 1>>}
    ELSE {<<>>}

\* the array literals client code writes
Literals == {<<>>, <<2, 1>>, <<1, 2, 1>>}

FreeSlot == IF \E a \in ArrIds : ~heap[a].alloc
            THEN CHOOSE a \in ArrIds : ~heap[a].alloc /\ \A b \in ArrIds : b < a => heap[b].alloc
            ELSE 0

TotalSubs == Len(cells[1].subs) + Len(cells[2].subs)
             + Len(cells[1].bsubs) + Len(cells[2].bsubs)

Seen(op, c, a, w) ==
    [op |-> op, c |-> c, a |-> a, raised |-> w.raised, error |-> w.error,
     fired |-> w.fired, before |-> w.before, changed |-> w.changed,
     m |-> "none", args |-> <<>>, ret |-> [t |-> "undefined"], nested |-> w.nested,
     lowered |-> w.lowered, reentered |-> w.reentered]

\* what array[m](...args) was seen to do and to return
Called(a, m, args, w) ==
    [Seen("call", 0, a, w) EXCEPT !.m = m, !.args = args, !.ret = w.ret]

\* a call the model does not observe: building or dropping an array, subscribing
Other == [op |-> "other", c |-> 0, a |-> 0, raised |-> FALSE, error |-> "none",
          fired |-> [c \in Cells |-> <<>>], before |-> [c \in Cells |-> 0],
          changed |-> [c \in Cells |-> 0], m |-> "none", args |-> <<>>,
          ret |-> [t |-> "undefined"], nested |-> {},
          lowered |-> FALSE, reentered |-> FALSE]

\* the arrays no property holds and the client code has let go of
Collect(h, cs) ==
    [a \in ArrIds |->
        IF ~h[a].marker /\ h[a].methods = {} /\ \A c \in Cells : cs[c].val # a
        THEN Blank
        ELSE [h[a] EXCEPT !.origin = 0]]

\* an instance whose own accessor is never found
HasOwnAccessorNever(own) == FALSE

\* property lookup on the instance: the own accessor defineProperty(instance,
\* key, ...) has defined shadows the accessor of the prototype
HasOwnAccessor(own) == own

\* instance.key = v: the prototype's setter on the first write, the
\* instance's own setter afterwards
WriteProperty(h, c, v, free) ==
    IF HasOwnAccessor(cells[c].mat) THEN Setter(Start(h, cells), c, v, free)
    ELSE DefineObservableArray(Start(h, cells), c, v, free)

\* client code builds an array literal and keeps it
NewArray(s) ==
    /\ ArrayStep
    /\ FreeSlot # 0
    /\ heap' = [heap EXCEPT ![FreeSlot] = [Blank EXCEPT !.alloc = TRUE, !.elems = s]]
    /\ last' = Other
    /\ UNCHANGED <<cells, plain>>

\* client code lets go of a plain array that no property holds
Drop(a) ==
    /\ ArrayStep
    /\ heap[a].alloc /\ ~heap[a].marker /\ heap[a].methods = {}
    /\ \A c \in Cells : cells[c].val # a
    /\ heap' = [b \in ArrIds |->
                   IF b = a THEN Blank
                   ELSE IF heap[b].origin = a THEN [heap[b] EXCEPT !.origin = 0]
                   ELSE heap[b]]
    /\ last' = Other
    /\ UNCHANGED <<cells, plain>>

\* instance.key = v, where v is null or an array the client code holds
Assign(c, v) ==
    /\ ArrayStep
    /\ v = Null \/ (IsArr(v) /\ heap[v].alloc)
    /\ (IsArr(v) /\ heap[v].marker /\ cells[c].val # v) => FreeSlot # 0
    /\ LET w == WriteProperty(heap, c, v, FreeSlot)
       IN  /\ heap' = w.heap
           /\ cells' = w.cells
           /\ plain' = [plain EXCEPT ![c] = IF IsArr(v) THEN heap[v].elems ELSE <<>>]
           /\ last' = Seen("assign", c, IF IsArr(v) THEN v ELSE 0, w)

\* instance.key = [...] by client code that keeps no other reference to the
\* literal, nor to the array the property held
WriteLiteral(c, s) ==
    /\ ArrayStep
    /\ FreeSlot # 0
    /\ LET w == WriteProperty([heap EXCEPT ![FreeSlot] =
                                  [Blank EXCEPT !.alloc = TRUE, !.elems = s]],
                              c, FreeSlot, 0)
       IN  /\ heap' = Collect(w.heap, w.cells)
           /\ cells' = w.cells
           /\ plain' = [plain EXCEPT ![c] = s]
           /\ last' = Seen("assign", c, FreeSlot, w)

\* instance.key = null by client code that keeps no reference to the array
\* the property held
WriteNull(c) ==
    /\ ArrayStep
    /\ LET w == WriteProperty(heap, c, Null, 0)
       IN  /\ heap' = Collect(w.heap, w.cells)
           /\ cells' = w.cells
           /\ plain' = [plain EXCEPT ![c] = <<>>]
           /\ last' = Seen("assign", c, 0, w)

\* the methods the wiring adds to an array beside the seven native ones
CellMethods == {"set", "replace", "remove", "removeAll", "mutate"}

\* the argument lists the model calls them with on an array of length n
CellArgsOf(m, n) ==
    IF m \in {"set", "mutate"} THEN {<<i, x>> : i \in 0..(n - 1), x \in Values}
    ELSE IF m = "replace" THEN {<<x, y>> : x, y \in Values}
    ELSE IF m = "remove" THEN {<<x>> : x \in Values}
    ELSE {<<>>} \cup {<<x>> : x \in Values}

\* what the call is documented to leave in an array that held s
PlainArr(m, args, s) ==
    IF m \in Methods THEN NativeArr(m, args, s)
    ELSE IF m \in {"set", "mutate"}
    THEN IF args[1] < Len(s) THEN Mutator(s, args[1], args[2]) ELSE s
    ELSE IF m = "replace"
    THEN IF IndexOf(s, args[1]) = 0 THEN s
         ELSE Mutator(s, IndexOf(s, args[1]) - 1, args[2])
    ELSE IF args = <<>> THEN <<>>
    ELSE SelectSeq(s, LAMBDA v : v # args[1])

\* array[m](...args) on an array the client code holds
Call(a, m, args) ==
    /\ ArrayStep
    /\ heap[a].alloc
    /\ LET w == CallMethod(Start(heap, cells), a, m, args, MaxDepth)
       IN  /\ \A b \in ArrIds : Len(w.heap[b].elems) <= MaxLen
           /\ Len(PlainArr(m, args, heap[a].elems)) <= MaxLen
           /\ \A c \in Cells : cells[c].val = a => Len(PlainArr(m, args, plain[c])) <= MaxLen
           /\ heap' = w.heap
           /\ cells' = w.cells
           /\ plain' = [c \in Cells |->
                           IF cells[c].val = a THEN PlainArr(m, args, plain[c])
                           ELSE plain[c]]
           /\ last' = Seen("call", 0, a, w)

\* array[m](...args) on an array the client code holds, for the native
\* methods and for the ones the wiring adds
Invoke(a, m, args) ==
    /\ ArrayStep
    /\ heap[a].alloc
    /\ \E w \in {CallMethod(Start(heap, cells), a, m, args, MaxDepth)} :
          /\ \A b \in ArrIds : Len(w.heap[b].elems) <= MaxLen
          /\ \A c \in Cells : cells[c].val = a => Len(PlainArr(m, args, plain[c])) <= MaxLen
          /\ heap' = w.heap
          /\ cells' = w.cells
          /\ plain' = [c \in Cells |->
                          IF cells[c].val = a THEN PlainArr(m, args, plain[c])
                          ELSE plain[c]]
          /\ last' = Called(a, m, args, w)

\* a callback is subscribed to the beforeChange event of the property's cell
SubscribeBefore(c, k) ==
    /\ ArrayStep
    /\ cells[c].mat
    /\ TotalSubs < MaxSubs
    /\ cells' = [cells EXCEPT ![c].bsubs = Append(@, k)]
    /\ last' = Other
    /\ UNCHANGED <<heap, plain>>

\* a callback is subscribed to the changes of the property
Subscribe(c, k) ==
    /\ ArrayStep
    /\ cells[c].mat
    /\ TotalSubs < MaxSubs
    /\ cells' = [cells EXCEPT ![c].subs = Append(@, k)]
    /\ last' = Other
    /\ UNCHANGED <<heap, plain>>

vars == <<arrVars, subVars, extVars, moreVars>>

InitArrays ==
    /\ heap = [a \in ArrIds |-> Blank]
    /\ cells = [c \in Cells |-> [mat |-> FALSE, val |-> Null, inside |-> FALSE,
                                 subs |-> <<>>, bsubs |-> <<>>, asubs |-> 0,
                                 born |-> 0]]
    /\ plain = [c \in Cells |-> <<>>]
    /\ last = Other

(* -------------------------- scalar properties -------------------------- *)
\* subscribers of the scalar cells, all cells together
MaxScalarSubs == 2

\* a reference to an object that is not a plain record (a class instance)
AnObject == -2

\* two properties declared with @observable: s is shallow, d is deep
ScalarKeys == {"s", "d"}
DeepKey(k) == k = "d"
ScalarValues == {Undefined, Null, AnObject} \cup Values

\* the array a client code holds, as a value written to a scalar cell
ArrayValue(a) == 10 + a
\* Array.isArray(value)
IsArrayValue(v) == v > 10

\* no cell: the instance has no own property for the key
Declared == [own |-> FALSE, born |-> 0, val |-> Undefined, subs |-> <<>>]

\* an evaluation of one top-level access of a scalar property
StartScalar(k) ==
    [sp |-> sp, fired |-> Zeros(Len(sp[k].subs)), raised |-> FALSE,
     names |-> "none", ret |-> Undefined]

\* the equalityComparer of ko.observable: a primitive old value is compared
\* with ===, an object is always different
ObservableIsDifferent(old, new) ==
    IF old = AnObject \/ IsArrayValue(old) THEN TRUE ELSE old # new

\* notifySubscribers(value, "change") of the cell of property k, from
\* subscriber i on: a callback that throws ends the walk
RECURSIVE NotifyScalar(_, _, _)
NotifyScalar(r, k, i) ==
    IF i > Len(r.sp[k].subs) THEN r
    ELSE LET r1 == [r EXCEPT !.fired[i] = @ + 1]
         IN  IF r.sp[k].subs[i] = "throw" THEN [r1 EXCEPT !.raised = TRUE]
             ELSE NotifyScalar(r1, k, i + 1)

\* observable$$1(newValue): the write of a knockout observable
ObservableWrite(r, k, v) ==
    IF ObservableIsDifferent(r.sp[k].val, v)
    THEN NotifyScalar([r EXCEPT !.sp[k].val = v], k, 1)
    ELSE r

\* setter: the observable itself, or in deep mode the function that writes
\* prepareDeepValue(newValue)
ScalarSetter(r, k, newValue) ==
    ObservableWrite(r, k, IF DeepKey(k) THEN PrepareDeepValue(newValue) ELSE newValue)

\* a defineObservableProperty that does not write the initial value
DefineObservablePropertyUnseeded(r, k, value) ==
    [r EXCEPT !.sp[k] = [own |-> TRUE, born |-> r.sp[k].born + 1,
                         val |-> Undefined, subs |-> <<>>]]

\* defineObservableProperty: a new observable(), the instance's own accessor
\* over it, then setter(value)
DefineObservableProperty(r, k, value) ==
    ScalarSetter([r EXCEPT !.sp[k] = [own |-> TRUE, born |-> r.sp[k].born + 1,
                                      val |-> Undefined, subs |-> <<>>]],
                 k, value)

\* a prototype getter that makes the cell instead of throwing
PrototypeGetLazy(r, k) == DefineObservableProperty(r, k, Undefined)

\* the get of the accessor observableDecorator defines on the prototype:
\* throw new Error("@observable property '" + String(propKey) + "' was not initialized")
PrototypeGet(r, k) == [r EXCEPT !.raised = TRUE, !.names = k]

\* the set of the accessor observableDecorator defines on the prototype, for
\* a value that is not an array
PrototypeSet(r, k, value) == DefineObservableProperty(r, k, value)

\* instance.key: the own getter (the observable) or the prototype's getter
GetScalar(r, k) ==
    IF HasOwnAccessor(r.sp[k].own) THEN [r EXCEPT !.ret = r.sp[k].val]
    ELSE PrototypeGet(r, k)

\* instance.key = v: the own setter or the prototype's setter
SetScalar(r, k, v) ==
    IF HasOwnAccessor(r.sp[k].own) THEN ScalarSetter(r, k, v)
    ELSE PrototypeSet(r, k, v)

TotalScalarSubs == Len(sp["s"].subs) + Len(sp["d"].subs)

\* instance.key = v on a scalar property
WriteScalar(k, v) ==
    /\ LET r == SetScalar(StartScalar(k), k, v)
       IN  /\ sp' = r.sp
           /\ got' = [NoAccess EXCEPT !.op = "write", !.kind = "scalar", !.k = k,
                                      !.v = v, !.raised = r.raised, !.fired = r.fired]
    /\ written' = [written EXCEPT ![k] = v]
    /\ UNCHANGED <<arrVars, subVars, extVars, deepVars, lazyVars>>

\* instance.key is read on a scalar property
ReadScalar(k) ==
    /\ LET r == GetScalar(StartScalar(k), k)
       IN  /\ sp' = r.sp
           /\ got' = [NoAccess EXCEPT !.op = "read", !.kind = "scalar", !.k = k,
                                      !.raised = r.raised, !.names = r.names,
                                      !.ret = r.ret]
    /\ UNCHANGED <<written, arrVars, subVars, extVars, deepVars, lazyVars>>

\* a callback is subscribed to the cell of a scalar property
SubscribeScalar(k, kind) ==
    /\ sp[k].own
    /\ TotalScalarSubs < MaxScalarSubs
    /\ sp' = [sp EXCEPT ![k].subs = Append(@, kind)]
    /\ got' = NoAccess
    /\ UNCHANGED <<written, arrVars, subVars, extVars, deepVars, lazyVars>>

\* the name an array property is declared under
ArrayKey(c) == IF c = 1 THEN "shallowArray" ELSE "deepArray"

\* instance.key is read on an array property: the own getter (the
\* observableArray) or the prototype's getter, which throws
ReadArray(c) ==
    /\ got' = IF HasOwnAccessor(cells[c].mat)
              THEN [NoAccess EXCEPT !.op = "read", !.kind = "array", !.c = c,
                                    !.ret = cells[c].val]
              ELSE [NoAccess EXCEPT !.op = "read", !.kind = "array", !.c = c,
                                    !.raised = TRUE, !.names = ArrayKey(c)]
    /\ last' = Other
    /\ UNCHANGED <<heap, cells, plain, sp, written, subVars, extVars, deepVars, lazyVars>>

(* A property declared with @observable: the first write makes the array  *)
(* cell c or the scalar cell KeyOf(c), shallow for c = 1 and deep for 2.  *)
KeyOf(c) == IF DeepOf(c) THEN "d" ELSE "s"

\* a setter that looks at the decorator's array option only
MakesArrayCellByOption(array, isArr) == array

\* the set of the accessor observableDecorator defines on the prototype:
\* if (array || isArray(value)) defineObservableArray else defineObservableProperty
MakesArrayCell(array, isArr) == array \/ isArr

\* instance.key = a, for an array a client code holds: the own setter of the
\* cell the property has, or the prototype's setter
ObservableAssign(c, a) ==
    /\ IsArr(a) /\ heap[a].alloc
    /\ IF sp[KeyOf(c)].own \/ (~cells[c].mat /\ ~MakesArrayCell(FALSE, TRUE))
       THEN WriteScalar(KeyOf(c), ArrayValue(a))
       ELSE Assign(c, a)

\* instance.key = v, for a value that is not an array (an array cell is
\* written null only)
ObservableAssignValue(c, v) ==
    IF cells[c].mat \/ (~sp[KeyOf(c)].own /\ MakesArrayCell(FALSE, FALSE))
    THEN v = Null /\ Assign(c, Null)
    ELSE WriteScalar(KeyOf(c), v)

InitProps ==
    /\ sp = [k \in ScalarKeys |-> Declared]
    /\ written = [k \in ScalarKeys |-> Undefined]
    /\ got = NoAccess

(* ----------------------- deep mode: the object graph -------------------- *)
\* objects client code builds
NObj == 2
\* hidden computeds over instance.p.a.b
MaxWatch == 1
ObjIds == 1..NObj
Fields == {"a", "b"}

\* the values of properties and elements: primitives, and references to objects
Undef == [t |-> "undefined", n |-> 0]
NullV == [t |-> "null", n |-> 0]
Num(n) == [t |-> "number", n |-> n]
Ref(o) == [t |-> "ref", n |-> o]
IsRef(v) == v.t = "ref"

\* how client code makes an object, as the tests of prepareDeepValue see it:
\* typeof, Array.isArray, an own property "constructor", the prototype
Shapes == {"literal", "literalCtor", "bare", "bareCtor", "instance", "child",
           "function", "array"}
TypeOf(shape) == IF shape = "function" THEN "function" ELSE "object"
IsArrayShape(shape) == shape = "array"
OwnConstructor(shape) == shape \in {"literalCtor", "bareCtor"}
\* Object.create(null); new Class(); Object.create(aLiteral) or an instance of
\* a constructor whose prototype is an object literal; the others are made
\* by {...}, [...] or function
PrototypeOf(shape) ==
    CASE shape \in {"bare", "bareCtor"} -> "null"
      [] shape = "instance" -> "Class.prototype"
      [] shape = "child"    -> "aLiteral"
      [] shape = "array"    -> "Array.prototype"
      [] shape = "function" -> "Function.prototype"
      [] OTHER              -> "Object.prototype"

\* prototype.constructor, found along the prototype chain
InheritedConstructor(proto) ==
    CASE proto = "null"               -> "undefined"
      [] proto = "Class.prototype"    -> "Class"
      [] proto = "aLiteral"           -> "Object"
      [] proto = "Object.prototype"   -> "Object"
      [] proto = "Array.prototype"    -> "Array"
      [] proto = "Function.prototype" -> "Function"

\* value.constructor: the own property, else the inherited one
ConstructorOf(shape) ==
    IF OwnConstructor(shape) THEN "own" ELSE InheritedConstructor(PrototypeOf(shape))

NoObject ==
    [alloc |-> FALSE, shape |-> "literal", marker |-> FALSE,
     has |-> [f \in Fields |-> FALSE],
     val |-> [f \in Fields |-> Undef],
     cell |-> [f \in Fields |-> "none"],
     elems |-> <<>>, patched |-> FALSE, closure |-> [h |-> 0, f |-> "none"],
     walked |-> 0]

\* the tests of prepareDeepValue that lead to prepareDeepObject
Walks(shape) ==
    /\ TypeOf(shape) = "object"
    /\ ~IsArrayShape(shape)
    /\ IF OwnConstructor(shape)
       THEN PrototypeOf(shape) \in {"Object.prototype", "null"}
       ELSE ConstructorOf(shape) = "Object"

\* an evaluation of one top-level call on the object graph; calls[i] counts
\* the runs of the callback of hidden computed i during the call; walking
\* holds the records whose walk has begun and not ended, cycle tells that
\* the walk came back to one of them; walked, in a record, counts its walks
StartDeep ==
    [objs |-> objs, dp |-> dp, dq |-> dq, ws |-> ws, calls |-> Zeros(Len(ws)),
     raised |-> FALSE, full |-> FALSE, ret |-> Undef,
     walking |-> {}, cycle |-> FALSE]

FreeObj(d) ==
    IF \E o \in ObjIds : ~d.objs[o].alloc
    THEN CHOOSE o \in ObjIds : ~d.objs[o].alloc /\ \A n \in ObjIds : n < o => d.objs[n].alloc
    ELSE 0

\* the cells of the object graph: of the instance's p and q, and of the
\* properties of the records
CellP == [h |-> 0, f |-> "p"]
CellQ == [h |-> 0, f |-> "q"]
CellOf(o, f) == [h |-> o, f |-> f]

\* the read of instance.p.a.b with dependency detection: the cells read, the
\* value, and whether the read threw (a property of null or undefined)
EvalPath(d) ==
    LET v1 == d.dp.val
        d1 == {CellP}
    IN  IF ~IsRef(v1)
        THEN [deps |-> d1, val |-> Undef, threw |-> TRUE]
        ELSE LET o1 == d.objs[v1.n]
                 v2 == IF o1.has["a"] THEN o1.val["a"] ELSE Undef
                 d2 == IF o1.cell["a"] # "none" THEN d1 \cup {CellOf(v1.n, "a")} ELSE d1
             IN  IF v2.t \in {"null", "undefined"}
                 THEN [deps |-> d2, val |-> Undef, threw |-> TRUE]
                 ELSE IF ~IsRef(v2)
                 THEN [deps |-> d2, val |-> Undef, threw |-> FALSE]
                 ELSE LET o2 == d.objs[v2.n]
                          v3 == IF o2.has["b"] THEN o2.val["b"] ELSE Undef
                          d3 == IF o2.cell["b"] # "none"
                                THEN d2 \cup {CellOf(v2.n, "b")} ELSE d2
                      IN  [deps |-> d3, val |-> v3, threw |-> FALSE]

\* the equalityComparer of knockout: primitives are compared, objects differ
ValueIsDifferent(old, new) == IF IsRef(old) THEN TRUE ELSE old # new

\* evaluateImmediate of hidden computed i after a dependency has changed: the
\* expression is read again; the computed of the bundle notifies always, the
\* one of the TypeScript sources when the value is a different one
Reevaluate(d, i) ==
    LET r == EvalPath(d) IN
    IF r.threw
    THEN [d EXCEPT !.ws[i].deps = r.deps, !.raised = TRUE]
    ELSE IF gen = "ts" /\ ~ValueIsDifferent(d.ws[i].latest, r.val)
    THEN [d EXCEPT !.ws[i].deps = r.deps]
    ELSE [d EXCEPT !.ws[i].deps = r.deps, !.ws[i].latest = r.val,
                   !.calls[i] = @ + 1]

\* notifySubscribers(value, "change") of a cell: the hidden computeds that
\* depend on it, in subscription order; one that throws ends the walk
RECURSIVE NotifyCell(_, _, _)
NotifyCell(d0, cell, i) ==
    Then(d0, LAMBDA d :
        IF i > Len(d.ws) \/ d.raised THEN d
        ELSE NotifyCell(IF cell \in d.ws[i].deps THEN Reevaluate(d, i) ELSE d, cell, i + 1))

IsArrayRef(d, v) == IsRef(v) /\ IsArrayShape(d.objs[v.n].shape)

\* cell.peek()
CellVal(d, cl) ==
    IF cl = CellP THEN d.dp.val
    ELSE IF cl = CellQ THEN d.dq.val
    ELSE d.objs[cl.h].val[cl.f]

SetCellVal(d, cl, v) ==
    IF cl = CellP THEN [d EXCEPT !.dp.val = v]
    ELSE IF cl = CellQ THEN [d EXCEPT !.dq.val = v]
    ELSE [d EXCEPT !.objs[cl.h].val[cl.f] = v]

\* insideObsArray of the cell's closure; the cells of record properties have
\* no subscriber that could leave it set
InsideCell(d, cl) == cl = CellQ /\ d.dq.inside
SetInsideCell(d, cl, b) == IF cl = CellQ THEN [d EXCEPT !.dq.inside = b] ELSE d

\* the subscribers of the cell of q, in order: one that throws ends the walk
NotifySubs(d, cl) ==
    IF cl = CellQ /\ \E i \in 1..Len(d.dq.subs) : d.dq.subs[i] = "throw"
    THEN [d EXCEPT !.raised = TRUE] ELSE d

\* notifySubscribers(value, "change") of a cell
NotifyChange(d0, cl) ==
    Then(d0, LAMBDA d :
        Then(NotifySubs(d, cl), LAMBDA d1 :
            IF d1.raised THEN d1 ELSE NotifyCell(d1, cl, 1)))

\* cell(newValue): the write of a knockout observable
CellWrite(d0, cl, v) ==
    Then(d0, LAMBDA d :
        IF ValueIsDifferent(CellVal(d, cl), v)
        THEN NotifyChange(SetCellVal(d, cl, v), cl)
        ELSE d)

RECURSIVE PrepareDeepValueIn(_, _)
RECURSIVE PrepareDeepObject(_, _)
RECURSIVE PrepareDeepFields(_, _, _)
RECURSIVE PrepareDeepSeq(_, _)
RECURSIVE DefineObservablePropertyOn(_, _, _, _)
RECURSIVE DeepArraySetter(_, _, _)

\* prepareDeepValue(value, expose): it returns the value it was given, and
\* has walked it when the tests say it is a plain Object
PrepareDeepValueIn(d0, v) ==
    Then(d0, LAMBDA d :
        IF ~IsRef(v) THEN d
        ELSE IF Walks(d.objs[v.n].shape) THEN PrepareDeepObject(d, v.n) ELSE d)

\* a test that lets a record be walked a second time
AlreadyProcessedTwice(d, o) == d.objs[o].walked >= 2

\* hasOwnProperty(instance, PATCHED_KEY)
AlreadyProcessed(d, o) == d.objs[o].marker

\* prepareDeepObject(instance, expose)
PrepareDeepObject(d, o) ==
    IF AlreadyProcessed(d, o) THEN [d EXCEPT !.cycle = @ \/ o \in d.walking]
    ELSE Then(PrepareDeepFields([d EXCEPT !.objs[o].marker = TRUE,
                                          !.objs[o].walked = @ + 1,
                                          !.walking = @ \cup {o}],
                                o, <<"a", "b">>),
              LAMBDA d1 : [d1 EXCEPT !.walking = @ \ {o}])

\* objectForEach(instance, ...): defineObservableArray for an array,
\* defineObservableProperty for any other value
PrepareDeepFields(d0, o, fs) ==
    Then(d0, LAMBDA d :
        IF fs = <<>> \/ d.full THEN d
        ELSE LET f == Head(fs)
                 value == d.objs[o].val[f]
             IN  PrepareDeepFields(
                     IF ~d.objs[o].has[f] THEN d
                     ELSE IF IsArrayRef(d, value)
                     THEN DeepArraySetter([d EXCEPT !.objs[o].cell[f] = "array",
                                                    !.objs[o].val[f] = Undef],
                                          CellOf(o, f), value)
                     ELSE DefineObservablePropertyOn(d, o, f, value),
                     o, Tail(fs)))

\* a deep defineObservableProperty that stores the value as it is
DefineObservablePropertyOnFlat(d, o, f, value) ==
    [d EXCEPT !.objs[o].cell[f] = "scalar"]

\* defineObservableProperty(instance, key, value, true, expose) on a record:
\* the accessor over a new observable, then setter(value)
DefineObservablePropertyOn(d, o, f, value) ==
    CellWrite(PrepareDeepValueIn([d EXCEPT !.objs[o].cell[f] = "scalar",
                                           !.objs[o].val[f] = Undef],
                                 value),
              CellOf(o, f), value)

\* newValue[i] = prepareDeepValue(newValue[i], expose), for every i
PrepareDeepSeq(d, vs) ==
    IF vs = <<>> THEN d ELSE PrepareDeepSeq(PrepareDeepValueIn(d, Head(vs)), Tail(vs))

\* delete lastValue[PATCHED_KEY], and the patched methods with it
Unpatch(d, lastValue) ==
    IF IsArrayRef(d, lastValue) /\ d.objs[lastValue.n].marker
    THEN [d EXCEPT !.objs[lastValue.n].marker = FALSE,
                   !.objs[lastValue.n].patched = FALSE]
    ELSE d

\* the array the setter goes on with: newValue.slice() when newValue carries
\* the marker of another property (0 when no object is left for the copy)
SliceIfPatched(d, newValue) ==
    IF IsArrayRef(d, newValue) /\ d.objs[newValue.n].marker
    THEN [d |-> IF FreeObj(d) = 0 THEN [d EXCEPT !.full = TRUE]
                ELSE [d EXCEPT !.objs[FreeObj(d)] =
                         [NoObject EXCEPT !.alloc = TRUE, !.shape = "array",
                                          !.elems = d.objs[newValue.n].elems]],
          nv |-> Ref(FreeObj(d))]
    ELSE [d |-> d, nv |-> newValue]

\* the elements made deep observable, the marker, patchArrayMethods(newValue)
PatchArray(d0, cl, nv) ==
    Then(d0, LAMBDA d :
        IF IsArrayRef(d, nv)
        THEN [PrepareDeepSeq(d, d.objs[nv.n].elems)
                 EXCEPT !.objs[nv.n].marker = TRUE,
                        !.objs[nv.n].patched = TRUE,
                        !.objs[nv.n].closure = cl]
        ELSE d)

\* insideObsArray = true; obsArray(newValue); insideObsArray = false
StoreInside(d0, cl, nv) ==
    Then(CellWrite(SetInsideCell(d0, cl, TRUE), cl, nv), LAMBDA d :
        IF d.raised THEN d ELSE SetInsideCell(d, cl, FALSE))

\* function setter(newValue) of defineObservableArray in deep mode, for the
\* cell of q or of a record property
DeepArraySetter(d0, cl, newValue) ==
    Then(d0, LAMBDA d :
        IF CellVal(d, cl) = newValue THEN StoreInside(d, cl, newValue)
        ELSE Then(SliceIfPatched(Unpatch(d, CellVal(d, cl)), newValue), LAMBDA s :
                 IF s.d.full THEN s.d
                 ELSE StoreInside(PatchArray(s.d, cl, s.nv), cl, s.nv)))

\* the deep setter of a scalar cell: observable$$1(prepareDeepValue(newValue))
DeepScalarSetter(d, cl, newValue) == CellWrite(PrepareDeepValueIn(d, newValue), cl, newValue)

DeepStep == UNCHANGED <<arrVars, subVars, extVars, propVars, lazyVars>>

\* the call returns, or raises: the state it leaves
Commit(d, op) ==
    /\ ~d.full
    /\ objs' = d.objs /\ dp' = d.dp /\ dq' = d.dq /\ ws' = d.ws
    /\ dseen' = [op |-> op, raised |-> d.raised, calls |-> d.calls, cycle |-> d.cycle]

\* client code builds an object: {}, {b: 1}, {a: x} or {a: x, b: 1} of some shape
NewObject(shape, a, b) ==
    /\ DeepStep
    /\ FreeObj(StartDeep) # 0
    /\ IsRef(a) => objs[a.n].alloc
    /\ objs' = [objs EXCEPT ![FreeObj(StartDeep)] =
                   [NoObject EXCEPT !.alloc = TRUE, !.shape = shape,
                                    !.has = [f \in Fields |->
                                               IF f = "a" THEN a # Undef ELSE b # Undef],
                                    !.val = [f \in Fields |-> IF f = "a" THEN a ELSE b]]]
    /\ dseen' = [op |-> "new", raised |-> FALSE, calls |-> Zeros(Len(ws)), cycle |-> FALSE]
    /\ UNCHANGED <<dp, dq, ws>>

\* client code builds an array literal
NewDeepArray(elems) ==
    /\ DeepStep
    /\ FreeObj(StartDeep) # 0
    /\ \A i \in 1..Len(elems) : IsRef(elems[i]) => objs[elems[i].n].alloc
    /\ objs' = [objs EXCEPT ![FreeObj(StartDeep)] =
                   [NoObject EXCEPT !.alloc = TRUE, !.shape = "array", !.elems = elems]]
    /\ dseen' = [op |-> "new", raised |-> FALSE, calls |-> Zeros(Len(ws)), cycle |-> FALSE]
    /\ UNCHANGED <<dp, dq, ws>>

\* instance.p = v on the deep scalar property: defineObservableProperty on the
\* first write of a value that is not an array, the deep setter afterwards
WriteP(v) ==
    /\ DeepStep
    /\ IsRef(v) => objs[v.n].alloc
    /\ ~dp.own => ~IsArrayRef(StartDeep, v)
    /\ Commit(DeepScalarSetter([StartDeep EXCEPT !.dp.own = TRUE], CellP, v), "writeP")

\* o[f] = v by client code, on a property the object has: the setter of the
\* property's cell when it has one, a plain data property otherwise
WriteField(o, f, v) ==
    /\ DeepStep
    /\ objs[o].alloc /\ ~IsArrayShape(objs[o].shape) /\ objs[o].has[f]
    /\ IsRef(v) => objs[v.n].alloc
    /\ Commit(IF objs[o].cell[f] = "scalar"
              THEN DeepScalarSetter(StartDeep, CellOf(o, f), v)
              ELSE IF objs[o].cell[f] = "array"
              THEN DeepArraySetter(StartDeep, CellOf(o, f), v)
              ELSE [StartDeep EXCEPT !.objs[o].val[f] = v],
              "writeField")

\* subscribe(() => instance.p.a.b, callback): the hidden computed reads the
\* expression at once; it throws when the read does
Watch ==
    /\ DeepStep
    /\ dp.own
    /\ Len(ws) < MaxWatch
    /\ ~EvalPath(StartDeep).threw
    /\ ws' = Append(ws, [deps |-> EvalPath(StartDeep).deps,
                         latest |-> EvalPath(StartDeep).val])
    /\ dseen' = [op |-> "watch", raised |-> FALSE, calls |-> Zeros(Len(ws) + 1),
                 cycle |-> FALSE]
    /\ UNCHANGED <<objs, dp, dq>>

\* elements of an array of the object graph
MaxElems == 2

\* what Array.prototype.push / unshift / splice leave in the array
NativeElems(elems, c) ==
    CASE c.m = "push"    -> elems \o c.items
      [] c.m = "unshift" -> c.items \o elems
      [] c.m = "splice"  -> SubSeq(elems, 1, c.i) \o c.items
                            \o SubSeq(elems, c.i + c.n + 1, Len(elems))

\* ArrayPrototype[fnName].apply(array, arguments)
NativeDeepCall(d, a, c) == [d EXCEPT !.objs[a].elems = NativeElems(@, c)]

RECURSIVE PatchedCall(_, _, _)
RECURSIVE KoArrayCall(_, _, _)

\* ko.observableArray.fn[fnName]: valueWillMutate, the method of the
\* underlying array (its own patched one when it has it), valueHasMutated
KoArrayCall(d0, cl, c) ==
    Then(d0, LAMBDA d :
        Then(IF d.objs[CellVal(d, cl).n].patched
             THEN PatchedCall(d, CellVal(d, cl).n, c)
             ELSE NativeDeepCall(d, CellVal(d, cl).n, c), LAMBDA d1 :
            IF d1.raised THEN d1 ELSE NotifyChange(d1, cl)))

\* the deep overrides of push, unshift and splice on a patched array
PatchedCall(d, a, c) ==
    IF InsideCell(d, d.objs[a].closure) THEN NativeDeepCall(d, a, c)
    ELSE Then(KoArrayCall(SetInsideCell(PrepareDeepSeq(d, c.items),
                                        d.objs[a].closure, TRUE),
                          d.objs[a].closure, c), LAMBDA d1 :
             IF d1.raised THEN d1 ELSE SetInsideCell(d1, d.objs[a].closure, FALSE))

\* obsArray.replace(oldItem, newItem) of knockout: the new item is stored
\* where the old one is found, and the subscribers are notified
KoReplace(d0, cl, old, new) ==
    Then(d0, LAMBDA d :
        LET at == IndexOf(d.objs[CellVal(d, cl).n].elems, old)
        IN  IF at = 0 THEN d
            ELSE NotifyChange([d EXCEPT !.objs[CellVal(d, cl).n].elems[at] = new], cl))

\* array.replace(oldItem, newItem), deep
DeepReplace(d, a, old, new) ==
    Then(KoReplace(PrepareDeepValueIn(SetInsideCell(d, d.objs[a].closure, TRUE), new),
                   d.objs[a].closure, old, new), LAMBDA d1 :
        IF d1.raised THEN d1 ELSE SetInsideCell(d1, d.objs[a].closure, FALSE))

\* array.set(index, newItem), deep: obsArray.splice(index, 1, prepared)
DeepSet(d, a, i, x) ==
    KoArrayCall(PrepareDeepValueIn(d, x), d.objs[a].closure,
                [m |-> "splice", i |-> i, n |-> 1, items |-> <<x>>])

\* array.mutate(mutator), deep: the elements are prepared after it ran
DeepMutate(d, a, i, x) ==
    Then([d EXCEPT !.objs[CellVal(d, d.objs[a].closure).n].elems = Mutator(@, i, x)],
         LAMBDA d1 :
            NotifyChange(PrepareDeepSeq(d1, d1.objs[CellVal(d, d.objs[a].closure).n].elems),
                         d.objs[a].closure))

\* the calls client code makes on the array of q: push, unshift and splice
\* with one or two items, splice that only removes, replace, set, mutate
ElemValues == {Num(1)} \cup {Ref(o) : o \in ObjIds}
ItemLists == {<<x>> : x \in ElemValues} \cup {<<x, Num(1)>> : x \in ElemValues}
DeepCalls(len) ==
    {[m |-> m, i |-> 0, n |-> 0, items |-> its] : m \in {"push", "unshift"}, its \in ItemLists}
    \cup {[m |-> "splice", i |-> i, n |-> n, items |-> its] :
             i \in 0..len, n \in 0..1, its \in ItemLists \cup {<<>>}}
    \cup {[m |-> m, i |-> i, n |-> 1, items |-> <<x>>] :
             m \in {"set", "mutate"}, i \in 0..len, x \in ElemValues}
    \cup {[m |-> "replace", i |-> i, n |-> 1, items |-> <<x>>] :
             i \in 1..len, x \in ElemValues}

DeepCall(d, a, c) ==
    CASE c.m \in {"push", "unshift", "splice"} -> PatchedCall(d, a, c)
      [] c.m = "replace" -> DeepReplace(d, a, d.objs[a].elems[c.i], c.items[1])
      [] c.m = "set"     -> DeepSet(d, a, c.i, c.items[1])
      [] c.m = "mutate"  -> DeepMutate(d, a, c.i, c.items[1])

\* instance.q = v on the deep array property: defineObservableArray on the
\* first write, its setter afterwards
WriteQ(v) ==
    /\ DeepStep
    /\ IsRef(v) => objs[v.n].alloc
    /\ Commit(DeepArraySetter([StartDeep EXCEPT !.dq.own = TRUE], CellQ, v), "writeQ")

\* instance.q[m](...) by client code, on the materialized array q holds
CallQ(c) ==
    /\ DeepStep
    /\ dq.own /\ IsArrayRef(StartDeep, dq.val) /\ objs[dq.val.n].patched
    /\ objs[dq.val.n].closure = CellQ
    /\ c.i <= Len(objs[dq.val.n].elems)
    /\ c.m = "set" => c.i < Len(objs[dq.val.n].elems)
    /\ c.m = "splice" => c.i + c.n <= Len(objs[dq.val.n].elems)
    /\ \A k \in 1..Len(c.items) : IsRef(c.items[k]) => objs[c.items[k].n].alloc
    /\ \E d \in {DeepCall(StartDeep, dq.val.n, c)} :
          Len(d.objs[dq.val.n].elems) <= MaxElems /\ Commit(d, c.m)

\* unwrap(instance, "q").subscribe(callback) with a callback that throws
SubscribeQ ==
    /\ DeepStep
    /\ dq.own /\ dq.subs = <<>>
    /\ dq' = [dq EXCEPT !.subs = <<"throw">>]
    /\ dseen' = [op |-> "subscribe", raised |-> FALSE, calls |-> Zeros(Len(ws)), cycle |-> FALSE]
    /\ UNCHANGED <<objs, dp, ws>>

InitDeep ==
    /\ objs = [o \in ObjIds |-> NoObject]
    /\ dp = [own |-> FALSE, val |-> Undef]
    /\ dq = [own |-> FALSE, val |-> Undef, inside |-> FALSE, subs |-> <<>>]
    /\ ws = <<>>
    /\ dseen = [op |-> "none", raised |-> FALSE, calls |-> <<>>, cycle |-> FALSE]

(* ---------------- derived properties and event properties --------------- *)
\* instances of the class
NInst == 2
\* subscribers of the event properties, all instances together
MaxEventSubs == 2
Insts == 1..NInst
\* the holders of accessors: the prototype, and the instances
Prototype == 0
Holders == {Prototype} \cup Insts
ComputedKeys == {"c", "c2"}

\* a memoized cell is named by the call of computed(get, this, options) that
\* made it: the instance it is bound to, the key, and which call it was
NoCell == [this |-> 0, key |-> "none", n |-> 0]
\* an accessor: get is "original" (the getter client code wrote), "upgrade"
\* (the desc.get of computedDecorator), "cell" (a memoized cell) or "none"
NoAccessor ==
    [get |-> "none", set |-> "none", cell |-> NoCell, cached |-> 0, stale |-> FALSE]

\* the accessors client code wrote: get c() { return this.x + 1 },
\* get c2() { return 2 * this.x }, set c(v) { this.x = v }
OriginalGet(k, x) == IF k = "c" THEN x + 1 ELSE 2 * x

\* the callable of an event property is named by the call of
\* defineEventProperty that made it
NoCallable == [this |-> 0, n |-> 0]
NotLazySeen ==
    [op |-> "none", inst |-> 0, key |-> "none", args |-> <<>>, raised |-> FALSE,
     names |-> "none", ret |-> 0, ran |-> FALSE, via |-> NoCell, fn |-> NoCallable,
     delivered |-> <<>>]

\* what unwrap was called on (own: the instance had the property as its
\* own), and what it returned: a cell, undefined, or nothing when it raised
NoUnwrap ==
    [kind |-> "none", inst |-> 0, key |-> "none", own |-> FALSE, raised |-> FALSE,
     ret |-> "nothing", cell |-> NoCell]

\* an evaluation of one top-level call
StartLazy ==
    [acc |-> acc, ncells |-> ncells, xs |-> xs, evt |-> evt, raised |-> FALSE,
     names |-> "none", ret |-> 0, ran |-> FALSE, via |-> NoCell, fn |-> NoCallable,
     delivered |-> <<>>]

\* a decorator that upgrades whatever descriptor it is given
HasGetterUnchecked(desc) == TRUE

\* if (!get) throw ...
HasGetter(desc) == desc.get # "none"

\* computedDecorator(prototype, propKey, desc): the error names the key; the
\* descriptor returned, which the class definition installs, has the
\* upgrading getter and the setter it had
ComputedDecorator(l, k) ==
    IF ~HasGetter(l.acc[Prototype][k])
    THEN [l EXCEPT !.raised = TRUE, !.names = k]
    ELSE [l EXCEPT !.acc[Prototype][k].get = "upgrade"]

\* an upgrade that replaces the accessor of the prototype
TargetPrototype(i) == Prototype

\* defineProperty(this, propKey, ...): the instance's own accessor
Target(i) == i

\* desc.get of computedDecorator, called with this = i: a new pure computed
\* over the getter bound to this, the own accessor {get: koComputed, set: set},
\* and koComputed(), which evaluates the getter
UpgradedGet(l, i, k) ==
    [l EXCEPT !.ncells[i][k] = @ + 1,
              !.acc[Target(i)][k] =
                  [get |-> "cell", set |-> l.acc[Prototype][k].set,
                   cell |-> [this |-> i, key |-> k, n |-> l.ncells[i][k] + 1],
                   cached |-> OriginalGet(k, l.xs[i]), stale |-> FALSE],
              !.ret = OriginalGet(k, l.xs[i]),
              !.ran = TRUE,
              !.via = [this |-> i, key |-> k, n |-> l.ncells[i][k] + 1]]

\* koComputed() of the cell accessor h holds: the pure computed runs its
\* getter again when a dependency has changed since the last run, and
\* returns the value it has otherwise
CellGet(l, h, k) ==
    IF l.acc[h][k].stale
    THEN [l EXCEPT !.acc[h][k].cached = OriginalGet(k, l.xs[l.acc[h][k].cell.this]),
                   !.acc[h][k].stale = FALSE,
                   !.ret = OriginalGet(k, l.xs[l.acc[h][k].cell.this]),
                   !.ran = TRUE,
                   !.via = l.acc[h][k].cell]
    ELSE [l EXCEPT !.ret = l.acc[h][k].cached, !.ran = FALSE, !.via = l.acc[h][k].cell]

\* the holder whose accessor instance[key] finds: the instance's own one,
\* else the prototype's
AccessorHolder(l, i, k) == IF l.acc[i][k].get # "none" THEN i ELSE Prototype

\* instance[key]
GetComputed(l, i, k) ==
    IF l.acc[AccessorHolder(l, i, k)][k].get = "cell"
    THEN CellGet(l, AccessorHolder(l, i, k), k)
    ELSE UpgradedGet(l, i, k)

\* instance.x = v: the cells that have read x have a changed dependency
WriteDependency(l, i, v) ==
    IF l.xs[i] = v THEN l
    ELSE [l EXCEPT !.xs[i] = v,
                   !.acc = [h \in Holders |-> [k \in ComputedKeys |->
                               IF l.acc[h][k].get = "cell" /\ l.acc[h][k].cell.this = i
                               THEN [l.acc[h][k] EXCEPT !.stale = TRUE]
                               ELSE l.acc[h][k]]]]

\* instance[key] = v: the original setter, with this = the instance
SetComputed(l, i, k, v) == WriteDependency(l, i, v)

LazyStep == UNCHANGED <<arrVars, subVars, extVars, propVars, deepVars>>

\* the call returns, or raises: the state it leaves and what was seen of it
CommitLazy(l, op, i, k, args) ==
    /\ acc' = l.acc /\ ncells' = l.ncells /\ xs' = l.xs /\ evt' = l.evt
    /\ unw' = NoUnwrap
    /\ lseen' = [op |-> op, inst |-> i, key |-> k, args |-> args, raised |-> l.raised,
                 names |-> l.names, ret |-> l.ret, ran |-> l.ran, via |-> l.via,
                 fn |-> l.fn, delivered |-> l.delivered]

\* the class definition applies @computed to key k; an error ends it, and
\* the class is defined when every derived key is decorated
Decorate(k) ==
    /\ LazyStep
    /\ phase = "defining"
    /\ acc[Prototype][k].get # "upgrade"
    /\ CommitLazy(ComputedDecorator(StartLazy, k), "decorate", 0, k, <<>>)
    /\ phase' = IF ComputedDecorator(StartLazy, k).raised THEN "failed"
                ELSE IF \A j \in ComputedKeys \ {k} : acc[Prototype][j].get = "upgrade"
                THEN "defined" ELSE "defining"

\* instance[key] by client code
ReadComputed(i, k) ==
    /\ LazyStep
    /\ phase = "defined"
    /\ CommitLazy(GetComputed(StartLazy, i, k), "read", i, k, <<>>)
    /\ UNCHANGED phase

\* instance[key] = v by client code, for a key that has a setter
WriteComputed(i, k, v) ==
    /\ LazyStep
    /\ phase = "defined"
    /\ acc[AccessorHolder(StartLazy, i, k)][k].set = "original"
    /\ CommitLazy(SetComputed(StartLazy, i, k, v), "write", i, k, <<v>>)
    /\ UNCHANGED phase

\* instance.x = v by client code
SetDependency(i, v) ==
    /\ LazyStep
    /\ phase = "defined"
    /\ CommitLazy(WriteDependency(StartLazy, i, v), "writeX", i, "x", <<v>>)
    /\ UNCHANGED phase

\* defineEventProperty(instance, key): a new subscribable, a new callable,
\* and the own value property that holds it
DefineEventProperty(l, i) ==
    [l EXCEPT !.evt[i] = [own |-> TRUE, made |-> l.evt[i].made + 1,
                          fn |-> [this |-> i, n |-> l.evt[i].made + 1],
                          subs |-> <<>>],
              !.fn = [this |-> i, n |-> l.evt[i].made + 1]]

\* instance.e: the own value, else the getter event() put on the prototype
GetEvent(l, i) ==
    IF l.evt[i].own THEN [l EXCEPT !.fn = l.evt[i].fn] ELSE DefineEventProperty(l, i)

\* arraySlice(arguments): a new array with the same elements
RECURSIVE ArraySlice(_)
ArraySlice(args) ==
    IF args = <<>> THEN <<>> ELSE <<Head(args)>> \o ArraySlice(Tail(args))

\* a walk that calls the disposed subscriptions too
ReceivesAlways(sub) == TRUE

\* if (!subscription._isDisposed) of notifySubscribers
Receives(sub) == ~sub.disposed

\* callback.apply(null, eventArgs): the subscriber gets the arguments; a
\* "throw" callback raises, a "disposeNext" one disposes the subscription
\* made after its own
EventCallback(l, i, j, eventArgs) ==
    Then([l EXCEPT !.delivered = Append(@, [to |-> j, args |-> eventArgs])], LAMBDA l1 :
        CASE l1.evt[i].subs[j].cb = "throw" -> [l1 EXCEPT !.raised = TRUE]
          [] l1.evt[i].subs[j].cb = "disposeNext" /\ j < Len(l1.evt[i].subs) ->
                 [l1 EXCEPT !.evt[i].subs[j + 1].disposed = TRUE]
          [] OTHER -> l1)

\* subscribable.notifySubscribers(eventArgs): the subscriptions there are
\* when the call starts, in subscription order, the disposed ones skipped;
\* what a callback throws is not caught
RECURSIVE NotifySubscribers(_, _, _, _)
NotifySubscribers(l0, i, snap, eventArgs) ==
    Then(l0, LAMBDA l :
        IF snap = <<>> \/ l.raised THEN l
        ELSE NotifySubscribers(IF Receives(l.evt[i].subs[Head(snap)])
                               THEN EventCallback(l, i, Head(snap), eventArgs)
                               ELSE l,
                               i, Tail(snap), eventArgs))

RECURSIVE EventSubsUpTo(_, _)
EventSubsUpTo(e, i) == IF i = 0 THEN 0 ELSE Len(e[i].subs) + EventSubsUpTo(e, i - 1)
\* the subscriptions of the event properties, all instances together
TotalEventSubs(e) == EventSubsUpTo(e, NInst)

\* instance.e by client code
ReadEvent(i) ==
    /\ LazyStep
    /\ CommitLazy(GetEvent(StartLazy, i), "readEvent", i, "e", <<>>)
    /\ UNCHANGED phase

\* instance.e(...args) by client code
CallEvent(i, args) ==
    /\ LazyStep
    /\ \E l \in {GetEvent(StartLazy, i)} :
          CommitLazy(NotifySubscribers(l, i, UpTo(Len(l.evt[i].subs)), ArraySlice(args)),
                     "call", i, "e", args)
    /\ UNCHANGED phase

\* instance.e.subscribe(callback)
SubscribeEvent(i, cb) ==
    /\ LazyStep
    /\ TotalEventSubs(evt) < MaxEventSubs
    /\ \E l \in {GetEvent(StartLazy, i)} :
          CommitLazy([l EXCEPT !.evt[i].subs = Append(@, [cb |-> cb, disposed |-> FALSE])],
                     "subscribe", i, "e", <<>>)
    /\ UNCHANGED phase

\* subscription.dispose() of the j-th subscription of the instance's event
DisposeEvent(i, j) ==
    /\ LazyStep
    /\ j \in 1..Len(evt[i].subs) /\ ~evt[i].subs[j].disposed
    /\ CommitLazy([StartLazy EXCEPT !.evt[i].subs[j].disposed = TRUE],
                  "dispose", i, "e", <<j>>)
    /\ UNCHANGED phase

\* getOwnPropertyDescriptor(instance, key).get: the getter of an accessor
\* property, undefined for a property that holds a value
DescriptorGet(desc) == IF desc = "accessor" THEN "cell" ELSE "undefined"

\* unwrap(instance, key) leaves the properties of the other kinds alone
UnwrapStep(kind, i, k, own, raised, desc, cell) ==
    /\ LazyStep
    /\ unw' = [kind |-> kind, inst |-> i, key |-> k, own |-> own, raised |-> raised,
               ret |-> IF raised THEN "nothing" ELSE DescriptorGet(desc),
               cell |-> cell]
    /\ lseen' = NotLazySeen
    /\ UNCHANGED phase

\* unwrap(instance, key) of a property declared with @observable: the read
\* instance[key] goes to the getter of the prototype when the instance has
\* no own accessor yet
UnwrapScalar(k) ==
    /\ \E r \in {IF HasOwnAccessor(sp[k].own) THEN StartScalar(k)
                  ELSE GetScalar(StartScalar(k), k)} :
          UnwrapStep("observable", 1, k, sp[k].own, r.raised, "accessor", NoCell)
    /\ UNCHANGED <<acc, ncells, xs, evt>>

\* unwrap(instance, key) of a property declared with @observableArray
UnwrapArray(c) ==
    /\ UnwrapStep("observableArray", 1, ArrayKey(c), cells[c].mat,
                  ~HasOwnAccessor(cells[c].mat), "accessor", NoCell)
    /\ UNCHANGED <<acc, ncells, xs, evt>>

\* unwrap(instance, key) of a property declared with @computed
UnwrapComputed(i, k) ==
    /\ phase = "defined"
    /\ \E l \in {IF acc[i][k].get # "none" THEN StartLazy
                  ELSE GetComputed(StartLazy, i, k)} :
          /\ UnwrapStep("computed", i, k, acc[i][k].get # "none", l.raised,
                        IF l.acc[i][k].get = "cell" THEN "accessor" ELSE "none",
                        l.acc[i][k].cell)
          /\ acc' = l.acc /\ ncells' = l.ncells /\ xs' = l.xs /\ evt' = l.evt

\* unwrap(instance, key) of a property declared with @event: the own
\* property defineEventProperty defines holds the callable as its value
UnwrapEvent(i) ==
    /\ \E l \in {IF evt[i].own THEN StartLazy ELSE GetEvent(StartLazy, i)} :
          /\ UnwrapStep("event", i, "e", evt[i].own, l.raised, "value", NoCell)
          /\ acc' = l.acc /\ ncells' = l.ncells /\ xs' = l.xs /\ evt' = l.evt

\* the class as client code wrote it: which of the derived keys have a getter
\* and which a setter
Declarations ==
    {d \in [ComputedKeys -> [get : {"original", "none"}, set : {"original", "none"}]] :
        \A k \in ComputedKeys : d[k].get # "none" \/ d[k].set # "none"}

InitLazyWith(d) ==
    /\ phase = "defining"
    /\ acc = [h \in Holders |-> [k \in ComputedKeys |->
                 IF h = Prototype
                 THEN [NoAccessor EXCEPT !.get = d[k].get, !.set = d[k].set]
                 ELSE NoAccessor]]
    /\ ncells = [i \in Insts |-> [k \in ComputedKeys |-> 0]]
    /\ xs = [i \in Insts |-> 1]
    /\ evt = [i \in Insts |-> [own |-> FALSE, made |-> 0, fn |-> NoCallable, subs |-> <<>>]]
    /\ lseen = NotLazySeen
    /\ unw = NoUnwrap

\* c with getter and setter, c2 with a getter
InitLazy ==
    InitLazyWith([k \in ComputedKeys |->
                     [get |-> "original", set |-> IF k = "c" THEN "original" ELSE "none"]])

(* --------------------- subscriptions and Disposable -------------------- *)
\* handles subscribe() has made
MaxHandles == 2
\* the built bundle (dist) and the TypeScript sources (ts)
Gens == {"dist", "ts"}
Sources == {"event", "dep", "array"}

\* the subscription subscribe() returns: of an event, of the hidden computed
\* that reads a dependency expression, or of an array cell's arrayChange.
\* calls, sawLive, sawHalf, due, dead and late only record what happened, the
\* first three of a once subscription only
NewHandle(src, mode, once, cb, owned, v) ==
    [src |-> src, mode |-> mode, once |-> once, cb |-> cb, owned |-> owned,
     disposed |-> FALSE, active |-> src = "dep", evaluating |-> FALSE,
     latest |-> IF src = "dep" THEN v ELSE 0,
     calls |-> 0, sawLive |-> FALSE, sawHalf |-> FALSE, due |-> FALSE,
     dead |-> FALSE, late |-> FALSE]

\* subscribable._subscriptions[event].slice(0): the live subscriptions of a source
Live(u, src) ==
    SelectSeq(UpTo(Len(u.hs)), LAMBDA i : u.hs[i].src = src /\ ~u.hs[i].disposed)

\* the change subscriptions of the observable: the hidden computeds that read it
Readers(u) ==
    SelectSeq(UpTo(Len(u.hs)), LAMBDA i : u.hs[i].src = "dep" /\ u.hs[i].active)

\* ko.subscription.prototype.dispose
OriginalDispose(u, i) == [u EXCEPT !.hs[i].disposed = TRUE]

\* koComputed.dispose()
ComputedDispose(u, i) == [u EXCEPT !.hs[i].active = FALSE]

\* a handle whose dispose lets the hidden computed live
HandleDisposeKeepsComputed(u, i) == OriginalDispose(u, i)

\* subscription.dispose(): of the dependency overload, originalDispose and
\* then koComputed.dispose(); of the other overloads, Knockout's own
HandleDispose(u, i) ==
    IF u.hs[i].src = "dep"
    THEN ComputedDispose(OriginalDispose(u, i), i)
    ELSE OriginalDispose(u, i)

RECURSIVE NotifyList(_, _)
RECURSIVE EvaluateList(_, _)
RECURSIVE Handler(_, _)
RECURSIVE Callback(_, _)
RECURSIVE Evaluate(_, _)
RECURSIVE WriteDep(_, _)

\* subscribable.notifySubscribers: every subscription of the snapshot that has
\* not been disposed meanwhile, in subscription order
NotifyList(u, snap) ==
    IF snap = <<>> THEN u
    ELSE LET i == Head(snap)
         IN  NotifyList(IF u.hs[i].disposed THEN u ELSE Handler(u, i), Tail(snap))

\* the client callback: it counts (ran lists the callbacks in the order they
\* were entered during the call), and on its first run an "again" callback
\* fires its own source once more (an event call, a write of the observable,
\* an assignment of the array property)
Callback(u, i) ==
    LET h == u.hs[i]
        u1 == [u EXCEPT !.ran = Append(@, i),
                        !.hs[i].calls = Min(h.calls + 1, IF h.once THEN 2 ELSE 1),
                        !.hs[i].sawLive = h.sawLive \/ (h.once /\ ~h.disposed),
                        !.hs[i].sawHalf = h.sawHalf \/ (h.disposed /\ h.active),
                        !.hs[i].late = h.late \/ h.dead]
    IN  IF h.cb = "again" /\ h.calls = 0
        THEN IF h.src = "dep" THEN WriteDep(u1, (u1.x % MaxVal) + 1)
             ELSE NotifyList(u1, Live(u1, h.src))
        ELSE u1

\* a once handler that runs the callback first and disposes afterwards
HandlerCallbackFirst(u, i) ==
    IF u.hs[i].once THEN HandleDispose(Callback(u, i), i) ELSE Callback(u, i)

\* handler: with once, subscription.dispose() and then callback.apply(null,
\* arguments); the callback itself otherwise
Handler(u, i) ==
    IF u.hs[i].once THEN Callback(HandleDispose(u, i), i) ELSE Callback(u, i)

\* computed.evaluateImmediate of the hidden computed: nothing while it is being
\* evaluated or after its disposal; beforeChange, the new value, change, to
\* its one subscriber; the bundle's computed notifies always, the sources'
\* computed when the value is a different one
Evaluate(u, i) ==
    LET h == u.hs[i]
        new == u.x
    IN  IF ~h.active \/ h.evaluating THEN u
        ELSE IF gen = "ts" /\ new = h.latest THEN u
        ELSE LET u1 == [u EXCEPT !.hs[i].evaluating = TRUE,
                                 !.hs[i].due = @ \/ (h.once /\ ~h.disposed)]
                 u2 == IF h.mode = "beforeChange" /\ ~u1.hs[i].disposed
                       THEN Handler(u1, i) ELSE u1
                 u3 == [u2 EXCEPT !.hs[i].latest = new]
                 u4 == IF h.mode = "change" /\ ~u3.hs[i].disposed
                       THEN Handler(u3, i) ELSE u3
             IN  [u4 EXCEPT !.hs[i].evaluating = FALSE]

EvaluateList(u, snap) ==
    IF snap = <<>> THEN u
    ELSE EvaluateList(Evaluate(u, Head(snap)), Tail(snap))

\* a write of the observable: nothing for an equal value, else the new value
\* and its change notification
WriteDep(u, v) ==
    IF v = u.x THEN u
    ELSE LET u1 == [u EXCEPT !.x = v] IN EvaluateList(u1, Readers(u1))

RECURSIVE MarkDue(_, _)
\* an event or an arrayChange is about to fire for the once subscriptions it
\* has (a hidden computed fires, for the one it has, when it notifies)
MarkDue(h, src) ==
    IF h = <<>> THEN <<>>
    ELSE <<IF Head(h).src = src /\ ~Head(h).disposed /\ Head(h).once
           THEN [Head(h) EXCEPT !.due = TRUE] ELSE Head(h)>> \o MarkDue(Tail(h), src)

Due(src) == [hs |-> MarkDue(hs, src), x |-> obs, ran |-> <<>>]

\* the state a top-level call starts from
Now == [hs |-> hs, x |-> obs, ran |-> <<>>]

NotSeen ==
    [op |-> "other", log |-> <<>>, fresh |-> <<>>, same |-> TRUE,
     live |-> <<>>, ran |-> <<>>]

Modes(src) == IF src = "dep" THEN {"change", "beforeChange"} ELSE {"change"}

\* subscribe(dependencyOrEvent, callback, options)
SubscribeCall(src, mode, once, cb) ==
    /\ Len(hs) < MaxHandles
    /\ hs' = Append(hs, NewHandle(src, mode, once, cb, FALSE, obs))
    /\ seen' = NotSeen
    /\ UNCHANGED <<gen, obs, dset, arrVars, extVars, moreVars>>

\* instance.subscribe(dependencyOrEvent, callback, options) of Disposable
DisposableSubscribe(src, mode, once, cb) ==
    /\ Len(hs) < MaxHandles
    /\ hs' = Append(hs, NewHandle(src, mode, once, cb, TRUE, obs))
    /\ dset' = [present |-> TRUE, list |-> Append(dset.list, Len(hs) + 1)]
    /\ seen' = NotSeen
    /\ UNCHANGED <<gen, obs, arrVars, extVars, moreVars>>

\* instance.event(...): the method an @event property holds
EventCall ==
    /\ LET u == NotifyList(Due("event"), Live(Due("event"), "event"))
       IN  hs' = u.hs /\ obs' = u.x
    /\ seen' = NotSeen
    /\ UNCHANGED <<gen, dset, arrVars, extVars, moreVars>>

\* instance.x = v, for a value other than the current one
WriteX(v) ==
    /\ v # obs
    /\ LET u == WriteDep(Now, v)
       IN  /\ hs' = u.hs /\ obs' = u.x
           /\ seen' = [NotSeen EXCEPT !.op = "write", !.live = Live(Now, "dep"),
                                      !.ran = u.ran]
    /\ UNCHANGED <<gen, dset, arrVars, extVars, moreVars>>

\* a change of the elements of the array property: arrayChange is notified
ChangeArray ==
    /\ LET u == NotifyList(Due("array"), Live(Due("array"), "array"))
       IN  hs' = u.hs /\ obs' = u.x
    /\ seen' = NotSeen
    /\ UNCHANGED <<gen, dset, arrVars, extVars, moreVars>>

\* handle.dispose() by client code
HandleDisposeCall(i) ==
    /\ i \in 1..Len(hs)
    /\ LET u == HandleDispose(Now, i)
       IN  hs' = u.hs
    /\ seen' = NotSeen
    /\ UNCHANGED <<gen, obs, dset, arrVars, extVars, moreVars>>

\* the handles made by instance.subscribe since the last instance.dispose()
Fresh == SelectSeq(UpTo(Len(hs)), LAMBDA i : hs[i].owned /\ ~hs[i].dead)

RECURSIVE DisposeEach(_, _)
\* subscriptions.forEach(subscription => subscription.dispose())
DisposeEach(u, list) ==
    IF list = <<>> THEN u
    ELSE DisposeEach([HandleDispose(u, Head(list))
                          EXCEPT !.hs[Head(list)].dead = TRUE],
                     Tail(list))

\* instance.dispose() of Disposable: the bundle deletes the Disposal Set, the
\* sources keep it
DisposableDispose ==
    /\ LET u == IF dset.present THEN DisposeEach(Now, dset.list)
                ELSE Now
           d == IF dset.present /\ gen = "dist"
                THEN [present |-> FALSE, list |-> <<>>] ELSE dset
       IN  /\ hs' = u.hs
           /\ dset' = d
           /\ seen' = [NotSeen EXCEPT
                          !.op = "dispose",
                          !.log = IF dset.present THEN dset.list ELSE <<>>,
                          !.fresh = Fresh,
                          !.same = u.hs = hs /\ d = dset]
    /\ UNCHANGED <<gen, obs, arrVars, extVars, moreVars>>

\* a test that takes any array for an observableArray
IsObservableArrayUnmarked(w, v) == IsArr(v)

\* isArray(obsArray) && hasOwnProperty(obsArray, PATCHED_KEY)
IsObservableArray(w, v) == IsArr(v) /\ w.heap[v].marker

\* the "arrayChange" branch of subscribe, where dependencyOrEvent() is v:
\* obsArray.subscribe(handler, null, "arrayChange") on the array itself, or
\* throw new Error("Can not subscribe to 'arrayChange' because ...")
ArrayChangeOverload(w, v) ==
    IF IsObservableArray(w, v)
    THEN CallMethod(w, v, "subscribe", <<"arrayChange">>, MaxDepth)
    ELSE [w EXCEPT !.raised = TRUE, !.error = "invalidArray"]

\* subscribe(() => v, callback, {event: "arrayChange", once}), where v is
\* null or an array the client code holds
SubscribeToArray(v, once, cb) ==
    /\ Len(hs) < MaxHandles
    /\ v = Null \/ (IsArr(v) /\ heap[v].alloc)
    /\ LET w == ArrayChangeOverload(Start(heap, cells), v)
       IN  /\ cells' = w.cells
           /\ hs' = IF w.raised THEN hs
                    ELSE Append(hs, NewHandle("array", "arrayChange", once, cb, FALSE, obs))
           /\ last' = Seen("subscribe", 0, IF IsArr(v) THEN v ELSE 0, w)
    /\ seen' = NotSeen
    /\ UNCHANGED <<heap, plain, gen, obs, dset, extVars, moreVars>>

InitSubscriptions ==
    /\ hs = <<>>
    /\ obs = 1
    /\ dset = [present |-> FALSE, list |-> <<>>]
    /\ seen = NotSeen

(* ------------------------------ extenders ------------------------------ *)
\* extenders registered
MaxRegs == 4
\* a base class, two subclasses of it, and a subclass of the first of them
Protos == {"Base", "Sub", "Sib", "Leaf"}
Parent(p) == CASE p = "Base" -> "none"
               [] p = "Sub"  -> "Base"
               [] p = "Sib"  -> "Base"
               [] p = "Leaf" -> "Sub"
Keys == {"k", "k2"}

\* a key the dictionary has no Extenders array for
NoList == 0
NoDictionary == [k \in Keys |-> NoList]

\* a lookup that does not follow the prototype chain
DictionaryOwn(p) ==
    IF p # "none" /\ tables[p].own THEN tables[p].dict ELSE NoDictionary

RECURSIVE Dictionary(_)
\* prototype[EXTENDERS_KEY]: the prototype's own table, or the one it
\* inherits along the prototype chain
Dictionary(p) ==
    IF p = "none" THEN NoDictionary
    ELSE IF tables[p].own THEN tables[p].dict
    ELSE Dictionary(Parent(p))

\* a clone that keeps the Extenders array of the table it was cloned from
SliceShared(e, key) == e

\* dictionary[existingKey] = extenders.slice()
Slice(e, key) ==
    IF e.dict[key] = NoList THEN e
    ELSE [lists |-> Append(e.lists, e.lists[e.dict[key]]),
          dict |-> [e.dict EXCEPT ![key] = Len(e.lists) + 1]]

\* a clone that starts from an empty table
CloneDictionaryEmpty(ls, dict) == [lists |-> ls, dict |-> NoDictionary]

\* extendObject({}, dictionary), and extenders.slice() for every key
CloneDictionary(ls, dict) == Slice(Slice([lists |-> ls, dict |-> dict], "k"), "k2")

\* the Extenders array instance[EXTENDERS_KEY][key], empty when there is none
Extenders(p, k) ==
    IF Dictionary(p)[k] = NoList THEN <<>> ELSE lists[Dictionary(p)[k]]

\* applyExtenders(instance, key, target): the extenders target.extend is
\* called with, in order
ApplyExtenders(p, k) == Extenders(p, k)

\* dictionary[key] || (dictionary[key] = [])
CurrentExtenders(e, k) ==
    IF e.dict[k] # NoList THEN e
    ELSE [lists |-> Append(e.lists, <<>>),
          dict |-> [e.dict EXCEPT ![k] = Len(e.lists) + 1]]

\* defineExtenders(prototype, key, extendersOrFactory)
DefineExtenders(p, k, extender) ==
    LET e0 == IF tables[p].own THEN [lists |-> lists, dict |-> tables[p].dict]
              ELSE CloneDictionary(lists, Dictionary(p))
        e1 == CurrentExtenders(e0, k)
    IN  [e1 EXCEPT !.lists[e1.dict[k]] = Append(@, extender)]

\* @extend(e) on key k of prototype p: defineExtenders(prototype, key, e)
Register(p, k) ==
    /\ Len(regs) < MaxRegs
    /\ LET e == DefineExtenders(p, k, Len(regs) + 1)
       IN  /\ tables' = [tables EXCEPT ![p] = [own |-> TRUE, dict |-> e.dict]]
           /\ lists' = e.lists
    /\ regs' = Append(regs, [p |-> p, k |-> k])
    /\ made' = [p |-> "none", k |-> "none", applied |-> <<>>]
    /\ UNCHANGED <<decVars, arrVars, subVars, moreVars>>

\* the first access of property k on an instance of class p makes its cell
MakeCell(p, k) ==
    /\ made' = [p |-> p, k |-> k, applied |-> ApplyExtenders(p, k)]
    /\ UNCHANGED <<tables, lists, regs, decVars, arrVars, subVars, moreVars>>

InitExtenders ==
    /\ tables = [p \in Protos |-> [own |-> FALSE, dict |-> NoDictionary]]
    /\ lists = <<>>
    /\ regs = <<>>
    /\ made = [p |-> "none", k |-> "none", applied |-> <<>>]

(* The decorators with options: observable(options), observableArray(options) *)
(* and computed(options) return a decorator that is applied to a property     *)
(* later; observable(prototype, key) and the like decorate at once.           *)

\* how many decorators client code keeps
MaxDecorators == 2

\* the options objects client code passes to observable and observableArray
ObservableOptions == [deep : {"undefined", "true"}, expose : {"undefined", "true"}]

\* the options objects client code passes to computed
ComputedOptions == [pure : {"true", "false"}]

\* a condition on an option: undefined and false do not hold
Truthy(x) == x = "true"

NoApplication ==
    [by |-> 0, kind |-> "none", array |-> FALSE, deep |-> FALSE, expose |-> FALSE,
     pure |-> FALSE]

\* observableDecorator(prototype, propKey), as decorator `by` (0: called by
\* observable or observableArray itself): the accessor it defines closes over
\* the three options as they are at this moment
ObservableDecoratorOn(o, by) ==
    [by |-> by, kind |-> "observable", array |-> Truthy(o.array),
     deep |-> Truthy(o.deep), expose |-> Truthy(o.expose), pure |-> FALSE]

\* computedDecorator(prototype, propKey, desc) on an accessor with a getter:
\* desc.get closes over the options as they are at this moment
ComputedDecoratorOn(o, by) ==
    [by |-> by, kind |-> "computed", array |-> FALSE, deep |-> FALSE, expose |-> FALSE,
     pure |-> Truthy(o.pure)]

\* observable(options) or observableArray(options): the options are stored and
\* observableDecorator is returned
ObservableWith(array, o) ==
    /\ Len(decs) < MaxDecorators
    /\ opt' = [array |-> array, deep |-> o.deep, expose |-> o.expose]
    /\ decs' = Append(decs, [kind |-> "observable", array |-> array,
                             deep |-> o.deep, expose |-> o.expose, pure |-> "undefined"])
    /\ dapp' = NoApplication
    /\ UNCHANGED <<copt, tables, lists, regs, made, arrVars, subVars, moreVars>>

\* @observable or @observableArray without options: observable(prototype, key)
ObservableOn(array) ==
    /\ opt' = [array |-> array, deep |-> "false", expose |-> "false"]
    /\ dapp' = ObservableDecoratorOn(opt', 0)
    /\ UNCHANGED <<copt, decs, tables, lists, regs, made, arrVars, subVars, moreVars>>

\* computed(options): the options object is stored and computedDecorator returned
ComputedWith(o) ==
    /\ Len(decs) < MaxDecorators
    /\ copt' = o
    /\ decs' = Append(decs, [kind |-> "computed", array |-> "false",
                             deep |-> "undefined", expose |-> "undefined", pure |-> o.pure])
    /\ dapp' = NoApplication
    /\ UNCHANGED <<opt, tables, lists, regs, made, arrVars, subVars, moreVars>>

\* @computed without options: computed(prototype, key, desc)
ComputedOn ==
    /\ copt' = [pure |-> "true"]
    /\ dapp' = ComputedDecoratorOn(copt', 0)
    /\ UNCHANGED <<opt, decs, tables, lists, regs, made, arrVars, subVars, moreVars>>

\* client code applies the decorator it keeps as number i to a property
ApplyDecorator(i) ==
    /\ i \in 1..Len(decs)
    /\ dapp' = IF decs[i].kind = "observable"
               THEN ObservableDecoratorOn(opt, i)
               ELSE ComputedDecoratorOn(copt, i)
    /\ UNCHANGED <<opt, copt, decs, tables, lists, regs, made, arrVars, subVars, moreVars>>

\* var observableArrayOption; ... var computedDecoratorOptions;
InitDecorators ==
    /\ opt = [array |-> "undefined", deep |-> "undefined", expose |-> "undefined"]
    /\ copt = [pure |-> "undefined"]
    /\ decs = <<>>
    /\ dapp = NoApplication

InitMore == InitProps /\ InitDeep /\ InitLazy

Init ==
    /\ InitArrays /\ gen = "dist" /\ InitSubscriptions /\ InitExtenders
    /\ InitDecorators /\ InitMore

(* One property, written with literals, its array called with every method *)
(* and argument list, its subscribers counting or throwing.                *)
Alone(c) == \A d \in Cells \ {c} : ~cells[d].mat

Next ==
    \/ \E c \in Cells, s \in Literals : Alone(c) /\ WriteLiteral(c, s)
    \/ \E c \in Cells : Alone(c) /\ WriteNull(c)
    \/ \E a \in ArrIds, m \in Methods : \E args \in ArgsOf(m) : Call(a, m, args)
    \/ \E c \in Cells, k \in {"count", "throw"} : Subscribe(c, k)

Spec == Init /\ [][Next]_vars

(* Two properties and the arrays client code passes between them.          *)
NextWire ==
    \/ NewArray(<<2, 1>>)
    \/ \E a \in ArrIds : Drop(a)
    \/ \E c \in Cells, v \in ArrIds \cup {Null} : Assign(c, v)
    \/ \E a \in ArrIds : Call(a, "reverse", <<>>)
    \/ \E k \in {"count", "throw"} : cells[1].subs = <<>> /\ Subscribe(1, k)

SpecWire == Init /\ [][NextWire]_vars

(* Arrays plain, exposed and detached, and null, as the value of the       *)
(* dependency of an "arrayChange" subscription.                            *)
NextArraySub ==
    \/ \E s \in {<<>>, <<2, 1>>} : NewArray(s)
    \/ \E a \in ArrIds : Drop(a)
    \/ \E c \in Cells, v \in ArrIds \cup {Null} : Assign(c, v)
    \/ \E v \in ArrIds \cup {Null}, once \in BOOLEAN : SubscribeToArray(v, once, "plain")

SpecArraySub == Init /\ [][NextArraySub]_vars

(* One property and every method of its array, the subscribers of its cell *)
(* counting what they are told.                                            *)
NextCalls ==
    \/ \E c \in Cells, s \in Literals : Alone(c) /\ WriteLiteral(c, s)
    \/ \E a \in ArrIds, m \in Methods : \E args \in ArgsOf(m) : Invoke(a, m, args)
    \/ \E a \in ArrIds, m \in CellMethods :
          \E args \in CellArgsOf(m, Len(heap[a].elems)) : Invoke(a, m, args)
    \/ \E c \in Cells : Subscribe(c, "count")
    \/ \E c \in Cells : SubscribeBefore(c, "count")

SpecCalls == Init /\ [][NextCalls]_vars

(* One property, whose subscribers call the array they are told about.     *)
NestKinds == {"push", "remove"}
NestLiterals == {<<>>, <<2, 1>>}
NestMethods == {"push", "set"}
NestArgs(m, n) == IF m \in Methods THEN ArgsOf(m) ELSE CellArgsOf(m, n)

NextNest ==
    \/ \E c \in Cells, s \in NestLiterals : Alone(c) /\ WriteLiteral(c, s)
    \/ \E a \in ArrIds, m \in NestMethods :
          \E args \in NestArgs(m, Len(heap[a].elems)) : Call(a, m, args)
    \/ \E c \in Cells, k \in NestKinds : Subscribe(c, k)
    \/ \E c \in Cells, k \in NestKinds : SubscribeBefore(c, k)

SpecNest == Init /\ [][NextNest]_vars

(* Subscriptions of the three kinds of source, in both generations.        *)
InitSub == InitArrays /\ gen \in Gens /\ InitSubscriptions /\ InitExtenders /\ InitDecorators /\ InitMore

NextSub ==
    \/ \E src \in Sources, once \in BOOLEAN, cb \in {"plain", "again"} :
          \E mode \in Modes(src) : SubscribeCall(src, mode, once, cb)
    \/ \E src \in Sources, once \in BOOLEAN, cb \in {"plain", "again"} :
          \E mode \in Modes(src) : DisposableSubscribe(src, mode, once, cb)
    \/ EventCall
    \/ \E v \in Values : WriteX(v)
    \/ ChangeArray
    \/ \E i \in 1..MaxHandles : HandleDisposeCall(i)
    \/ DisposableDispose

SpecSub == InitSub /\ [][NextSub]_vars

(* Subscriptions to a dependency expression that reads one observable,     *)
(* which client code and the callbacks write, in both generations.         *)
NextOrder ==
    \/ \E once \in BOOLEAN, cb \in {"plain", "again"}, mode \in Modes("dep") :
          SubscribeCall("dep", mode, once, cb)
    \/ \E v \in Values : WriteX(v)
    \/ \E i \in 1..MaxHandles : HandleDisposeCall(i)

SpecOrder == InitSub /\ [][NextOrder]_vars

(* Extenders registered on a base class and on a subclass, in any order.   *)
NextExt ==
    \/ \E p \in Protos, k \in Keys : Register(p, k)
    \/ \E p \in Protos, k \in Keys : MakeCell(p, k)

SpecExt == Init /\ [][NextExt]_vars

(* Decorators made with and without options, kept and applied in any order. *)
NextDecor ==
    \/ \E array \in {"false", "true"}, o \in ObservableOptions : ObservableWith(array, o)
    \/ \E array \in {"false", "true"} : ObservableOn(array)
    \/ \E o \in ComputedOptions : ComputedWith(o)
    \/ ComputedOn
    \/ \E i \in 1..MaxDecorators : ApplyDecorator(i)

SpecDecor == Init /\ [][NextDecor]_vars

(* Scalar and array properties read and written from the Declared state on, *)
(* one scalar and one array property of the instance in use.               *)
OnlyKey(k) == \A j \in ScalarKeys \ {k} : ~sp[j].own

NextProp ==
    \/ \E k \in ScalarKeys, v \in ScalarValues : OnlyKey(k) /\ WriteScalar(k, v)
    \/ \E k \in ScalarKeys : ReadScalar(k)
    \/ \E k \in ScalarKeys, kind \in {"count", "throw"} : SubscribeScalar(k, kind)
    \/ \E c \in Cells : Alone(c) /\ WriteLiteral(c, <<2, 1>>)
    \/ \E c \in Cells : Alone(c) /\ WriteNull(c)
    \/ \E c \in Cells : ReadArray(c)
    \/ \E c \in Cells : TotalSubs = 0 /\ Subscribe(c, "count")

SpecProp == Init /\ [][NextProp]_vars

(* Two properties declared with @observable, one shallow and one deep,    *)
(* written arrays and other values in any order; the arrays called; the   *)
(* cells subscribed to.                                                   *)
NextKind ==
    \/ NewArray(<<2, 1>>)
    \/ \E c \in Cells, a \in ArrIds : ObservableAssign(c, a)
    \/ \E c \in Cells, v \in {Null, 1} : ObservableAssignValue(c, v)
    \/ \E a \in ArrIds : Call(a, "push", <<1>>)
    \/ \E c \in Cells, k \in {"count", "throw"} : TotalSubs = 0 /\ Subscribe(c, k)
    \/ \E k \in ScalarKeys : TotalScalarSubs = 0 /\ SubscribeScalar(k, "count")

SpecKind == Init /\ [][NextKind]_vars

(* Object literals and class instances written to the deep scalar property *)
(* and changed along the path p.a.b, in both generations of subscribe.     *)
InitDeepSpec == InitArrays /\ gen \in Gens /\ InitSubscriptions /\ InitExtenders /\ InitDecorators /\ InitMore

FieldValues(f) ==
    IF f = "a" THEN {NullV} \cup {Ref(o) : o \in ObjIds} ELSE {Num(1), Num(2)}

NextDeep ==
    \/ \E shape \in {"literal", "instance"}, a \in {Undef} \cup {Ref(o) : o \in ObjIds},
          b \in {Undef, Num(1)} : NewObject(shape, a, b)
    \/ \E v \in {NullV} \cup {Ref(o) : o \in ObjIds} : WriteP(v)
    \/ \E o \in ObjIds, f \in Fields : \E v \in FieldValues(f) : WriteField(o, f, v)
    \/ Watch

SpecDeep == InitDeepSpec /\ [][NextDeep]_vars

(* Arrays of numbers, records and arrays written to the deep array property *)
(* and changed through the methods of the array it holds.                  *)
NextDeepArr ==
    \/ \E a \in {Undef} \cup {Ref(o) : o \in ObjIds}, b \in {Undef, Num(1)} :
          NewObject("literal", a, b)
    \/ \E elems \in {<<>>} \cup {<<x>> : x \in ElemValues} : NewDeepArray(elems)
    \/ \E v \in {NullV} \cup {Ref(o) : o \in ObjIds} :
          (IsRef(v) => IsArrayShape(objs[v.n].shape)) /\ WriteQ(v)
    \/ \E c \in DeepCalls(MaxElems) : CallQ(c)
    \/ SubscribeQ
SpecDeepArr == Init /\ [][NextDeepArr]_vars

(* Values of every kind the deep walk tells apart, written to the deep      *)
(* scalar property and to the properties of the records it holds.          *)
NextShape ==
    \/ \E shape \in Shapes \ {"array"}, a \in {Undef} \cup {Ref(o) : o \in ObjIds},
          b \in {Undef, Num(1)} : NewObject(shape, a, b)
    \/ \E v \in {NullV, Num(1)} \cup {Ref(o) : o \in ObjIds} : WriteP(v)
    \/ \E o \in ObjIds, f \in Fields : \E v \in FieldValues(f) : WriteField(o, f, v)
SpecShape == Init /\ [][NextShape]_vars

(* A class with two derived properties, declared with or without getter   *)
(* and setter, decorated, and then read and written on two instances.      *)
InitComputed ==
    /\ InitArrays /\ gen = "dist" /\ InitSubscriptions /\ InitExtenders /\ InitDecorators
    /\ InitProps /\ InitDeep
    /\ \E d \in Declarations : InitLazyWith(d)

NextComputed ==
    \/ \E k \in ComputedKeys : Decorate(k)
    \/ \E i \in Insts, k \in ComputedKeys : ReadComputed(i, k)
    \/ \E i \in Insts, k \in ComputedKeys, v \in Values : WriteComputed(i, k, v)
    \/ \E i \in Insts, v \in Values : SetDependency(i, v)
SpecComputed == InitComputed /\ [][NextComputed]_vars

(* Properties of the four kinds, written or read or left alone, and then   *)
(* unwrapped.                                                              *)
NextUnwrap ==
    \/ \E k \in ScalarKeys, v \in {Null, 1} : OnlyKey(k) /\ WriteScalar(k, v)
    \/ \E k \in ScalarKeys : UnwrapScalar(k)
    \/ \E c \in Cells : Alone(c) /\ WriteLiteral(c, <<2, 1>>)
    \/ \E c \in Cells : UnwrapArray(c)
    \/ \E k \in ComputedKeys : Decorate(k)
    \/ \E i \in Insts, k \in ComputedKeys : ReadComputed(i, k)
    \/ \E i \in Insts, k \in ComputedKeys : UnwrapComputed(i, k)
    \/ \E i \in Insts : ReadEvent(i)
    \/ \E i \in Insts : UnwrapEvent(i)
SpecUnwrap == Init /\ [][NextUnwrap]_vars

(* The event property of two instances: read, called with argument lists,  *)
(* subscribed to by callbacks that return, throw or dispose, and disposed. *)
ArgLists == {<<>>, <<1>>, <<2, 1>>}
EventCallbacks == {"log", "throw", "disposeNext"}

NextEvent ==
    \/ \E i \in Insts : ReadEvent(i)
    \/ \E i \in Insts, args \in ArgLists : CallEvent(i, args)
    \/ \E i \in Insts, cb \in EventCallbacks : SubscribeEvent(i, cb)
    \/ \E i \in Insts, j \in 1..MaxEventSubs : DisposeEvent(i, j)
SpecEvent == Init /\ [][NextEvent]_vars

(* ------------------------------- claims ------------------------------- *)
Holder(a) == {c \in Cells : cells[c].mat /\ cells[c].val = a}

\* C1: every top-level call of push, pop, shift, unshift, splice, reverse or
\* sort on the Exposed Array of a property (a call that returned) has fired
\* exactly one change notification to each current subscriber of the cell.
C1_ExactlyOneNotification ==
    (last.op = "call" /\ ~last.raised /\ heap[last.a].marker) =>
        \A c \in Holder(last.a) :
            \A i \in 1..Len(cells[c].subs) : last.fired[c][i] = 1

\* C2: the array a property holds has the elements of the assigned array, and
\* after any sequence of calls of the seven methods on it, the elements a
\* plain copy has after the same calls.
C2_SameAsPlainArray ==
    \A c \in Cells :
        (cells[c].mat /\ IsArr(cells[c].val)) => heap[cells[c].val].elems = plain[c]

\* a call on the array of the deep property has gone through the cell (one
\* beforeChange) and left the elements the plain copy has
C2_Witness ==
    /\ last.op = "call" /\ ~last.raised
    /\ cells[2].mat /\ cells[2].val = last.a
    /\ last.before[2] = 1
    /\ heap[last.a].elems = <<2, 1>> /\ plain[2] = <<2, 1>>

\* C9: after any property assignment or intercepted call has finished,
\* normally or by raising, the re-entrancy flag of every cell is false.
C9_FlagCleared == \A c \in Cells : ~cells[c].inside

NoneFired(l, c) == l.before[c] = 0 /\ \A i \in 1..Len(l.fired[c]) : l.fired[c][i] = 0

C5_DetachedIsPlain ==
    [][ /\ \A c \in Cells :
              (last'.op = "assign" /\ last'.c = c /\ cells[c].mat
                  /\ IsArr(cells[c].val) /\ cells'[c].val # cells[c].val)
              => /\ ~heap'[cells[c].val].marker
                 /\ heap'[cells[c].val].methods = {}
                 /\ heap'[cells[c].val].elems = heap[cells[c].val].elems
        /\ (last'.op = "call" /\ heap[last'.a].stripped)
              => /\ \A c \in Cells : cells'[c] = cells[c] /\ NoneFired(last', c)
                 /\ \A b \in ArrIds \ {last'.a} : heap'[b] = heap[b]
                 /\ heap'[last'.a] =
                        [heap[last'.a] EXCEPT
                            !.elems = NativeArr("reverse", <<>>, @)] ]_vars

\* a method has been called on an array a property used to hold, while the
\* property holds another array and has a subscriber
C5_Witness ==
    /\ last.op = "call" /\ heap[last.a].stripped
    /\ heap[last.a].elems = <<1, 2>>
    /\ cells[1].mat /\ IsArr(cells[1].val) /\ cells[1].val # last.a
    /\ cells[1].subs # <<>>

\* C6: the callback of a once subscription, on an event, on a dependency
\* expression or on arrayChange, has run at most once however often its
\* source fired (from inside the callback too), has run once as soon as the
\* source fired, and each time its body started the handle was disposed.
C6_OnceRunsOnce ==
    \A i \in 1..Len(hs) :
        hs[i].once =>
            /\ hs[i].calls <= 1
            /\ hs[i].due => hs[i].calls = 1
            /\ hs[i].calls = 1 => hs[i].disposed
            /\ ~hs[i].sawLive

\* two once subscriptions of the observable, one in change and one in
\* beforeChange mode, whose callbacks write the observable again from inside:
\* each callback has run once
C6_Witness ==
    /\ Len(hs) = 2
    /\ hs[1].once /\ hs[1].cb = "again" /\ hs[1].calls = 1
    /\ hs[2].once /\ hs[2].cb = "again" /\ hs[2].calls = 1
    /\ hs[1].src = hs[2].src /\ hs[1].src = "dep"
    /\ hs[1].mode # hs[2].mode

\* C7: no handle of a dependency expression is disposed while its hidden
\* computed is active, whether client code, once mode or the instance's
\* dispose() disposed it, and no callback has started in such a state.
C7_HiddenCellDisposed ==
    \A i \in 1..Len(hs) :
        /\ (hs[i].src = "dep" /\ hs[i].disposed) => ~hs[i].active
        /\ ~hs[i].sawHalf

\* one dependency handle was disposed by once mode, another by the dispose()
\* of the instance
C7_Witness ==
    \E i \in 1..Len(hs), j \in 1..Len(hs) :
        /\ hs[i].src = "dep" /\ hs[i].once /\ hs[i].calls = 1 /\ hs[i].disposed
        /\ ~hs[i].dead
        /\ hs[j].src = "dep" /\ ~hs[j].once /\ hs[j].dead /\ hs[j].disposed
        /\ hs[j].mode = "beforeChange"

\* C8: dispose() of the instance has disposed the handles made by the
\* instance's subscribe since the last dispose(), in registration order, and
\* cleared the Disposal Set; a dispose() with no such handle has disposed
\* nothing and changed nothing; no callback has run after the dispose() that
\* disposed its handle.
C8_DisposeOnceAndForAll ==
    /\ seen.op = "dispose" =>
          /\ seen.log = seen.fresh
          /\ \A n \in 1..Len(seen.log) : hs[seen.log[n]].disposed
          /\ dset.list = <<>>
          /\ seen.fresh = <<>> => seen.same
    /\ \A i \in 1..Len(hs) : ~hs[i].late

BaseRegs(k) ==
    SelectSeq(UpTo(Len(regs)),
              LAMBDA n : regs[n].p = "Base" /\ regs[n].k = k)
SubRegs(k) ==
    SelectSeq(UpTo(Len(regs)),
              LAMBDA n : regs[n].p = "Sub" /\ regs[n].k = k)

\* the extenders of the base class for k were all registered before the
\* extenders of the subclass for k
BaseThenSub(k) ==
    /\ BaseRegs(k) # <<>> /\ SubRegs(k) # <<>>
    /\ BaseRegs(k)[Len(BaseRegs(k))] < SubRegs(k)[1]

\* C10 (as stated): with an extender registered for k on the base prototype
\* and then one on the subclass prototype, a cell made for k on a subclass
\* instance has both, base first, and a cell made for k on a base instance
\* has the base extender only.
C10_AsStated ==
    BaseThenSub(made.k) =>
        /\ made.p = "Sub" => made.applied = BaseRegs(made.k) \o SubRegs(made.k)
        /\ made.p = "Base" => made.applied = BaseRegs(made.k)

\* the subclass prototype registered nothing, for any key, before the last
\* extender of the base class for k
SubAfterBase(k) ==
    \A n \in 1..Len(regs) : regs[n].p = "Sub" => BaseRegs(k)[Len(BaseRegs(k))] < n

\* C10 (amended): the same, provided the subclass prototype registered no
\* extender, for any key, before the base registration for k.
C10_Amended ==
    (BaseThenSub(made.k) /\ SubAfterBase(made.k)) =>
        /\ made.p = "Sub" => made.applied = BaseRegs(made.k) \o SubRegs(made.k)
        /\ made.p = "Base" => made.applied = BaseRegs(made.k)

\* a cell of a subclass instance has the base extender and then the subclass
\* extender
C10_Witness ==
    /\ made.p = "Sub" /\ made.k = "k"
    /\ BaseThenSub("k") /\ SubAfterBase("k")
    /\ Len(made.applied) = 2
    /\ regs[made.applied[1]].p = "Base" /\ regs[made.applied[2]].p = "Sub"

RECURSIVE Ancestors(_)
Ancestors(p) == IF Parent(p) = "none" THEN {} ELSE {Parent(p)} \cup Ancestors(Parent(p))
Siblings(p) == {q \in Protos \ {p} : Parent(q) # "none" /\ Parent(q) = Parent(p)}

\* the Extenders array a prototype's own table holds for a key
OwnExtenders(q, k) ==
    IF tables[q].own /\ tables[q].dict[k] # NoList THEN lists[tables[q].dict[k]] ELSE <<>>

\* C11: a registration on prototype P leaves, for every ancestor and every
\* sibling prototype of P and for every key, the own table, the own extender
\* list and the extender list its instances get as they were.
C11_OnlyOwnTable ==
    [][ Len(regs') = Len(regs) + 1 =>
          \A q \in Ancestors(regs'[Len(regs')].p) \cup Siblings(regs'[Len(regs')].p) :
              /\ tables'[q] = tables[q]
              /\ \A k \in Keys :
                    /\ OwnExtenders(q, k)' = OwnExtenders(q, k)
                    /\ Extenders(q, k)' = Extenders(q, k) ]_vars

\* after the base class, its subclass and the subclass of that one have each
\* registered an extender for k, in that order, a cell made for k on an
\* instance of the sibling class has the base extender alone
C11_Witness ==
    /\ made.p = "Sib" /\ made.k = "k"
    /\ Len(regs) = 3
    /\ regs[1] = [p |-> "Base", k |-> "k"]
    /\ regs[2] = [p |-> "Sub", k |-> "k"]
    /\ regs[3] = [p |-> "Leaf", k |-> "k"]
    /\ made.applied = <<1>>
    /\ Extenders("Leaf", "k") = <<1, 2, 3>> /\ Extenders("Sub", "k") = <<1, 2>>

\* C12: a read of a shallow scalar property returns the value client code
\* wrote last, from the first write of a freshly declared property on.
C12_ReadsLastWrite ==
    /\ (got.op = "read" /\ got.kind = "scalar" /\ ~DeepKey(got.k) /\ sp[got.k].own)
           => (~got.raised /\ got.ret = written[got.k])
    /\ (got.op = "write" /\ got.kind = "scalar" /\ ~DeepKey(got.k))
           => (sp[got.k].own /\ sp[got.k].val = got.v)

\* the shallow property was written twice, last with the value it was first
\* written with being replaced by a number, and a read has returned that number
C12_Witness ==
    /\ got.op = "read" /\ got.kind = "scalar" /\ got.k = "s" /\ ~got.raised
    /\ got.ret = 2 /\ written["s"] = 2
    /\ sp["s"].subs = <<"count", "throw">>

\* the read of an array property before its first write
DeclaredArrayRead(c) ==
    got'.op = "read" /\ got'.kind = "array" /\ got'.c = c /\ ~cells[c].mat

\* C13: a read of a declared property (scalar or array, shallow or deep)
\* before its first write raises an error that names the property and leaves
\* the property declared, with no cell; a write after it makes the one cell
\* of the property and stores the value.
C13_UninitializedRead ==
    [][ /\ \A k \in ScalarKeys :
              (got'.op = "read" /\ got'.kind = "scalar" /\ got'.k = k /\ ~sp[k].own)
              => (got'.raised /\ got'.names = k /\ sp' = sp /\ ~sp'[k].own /\ sp'[k].born = 0)
        /\ \A c \in Cells :
              DeclaredArrayRead(c)
              => (got'.raised /\ got'.names = ArrayKey(c) /\ cells' = cells
                  /\ ~cells'[c].mat /\ cells'[c].born = 0)
        /\ \A k \in ScalarKeys :
              (got'.op = "write" /\ got'.kind = "scalar" /\ got'.k = k /\ ~sp[k].own
                  /\ got.op = "read" /\ got.raised /\ got.k = k)
              => (sp'[k].own /\ sp'[k].born = 1 /\ sp'[k].val = got'.v /\ ~got'.raised)
        /\ \A c \in Cells :
              (last'.op = "assign" /\ last'.c = c /\ ~cells[c].mat
                  /\ got.op = "read" /\ got.raised /\ got.c = c)
              => (cells'[c].mat /\ cells'[c].born = 1 /\ ~last'.raised
                  /\ (last'.a # 0 => cells'[c].val = last'.a)
                  /\ (last'.a = 0 => cells'[c].val = Null)) ]_vars

\* the deep scalar property was read while declared and the read raised an
\* error naming it, while the shallow scalar property and the deep array
\* property have been written and have their cells
C13_Witness ==
    /\ got.op = "read" /\ got.kind = "scalar" /\ got.k = "d" /\ got.raised
    /\ got.names = "d" /\ ~sp["d"].own
    /\ cells[2].mat /\ IsArr(cells[2].val) /\ ~cells[1].mat
    /\ sp["s"].own /\ sp["s"].val = 1

\* the subscribers a cell had are the first subscribers it has
KeepsSubs(before, after) ==
    Len(before) <= Len(after) /\ SubSeq(after, 1, Len(before)) = before

\* C14: a property gets its cell at the first write and keeps it: no later
\* write makes another cell or another accessor, the subscribers of the cell
\* stay subscribed, and a write that changes the value notifies each of them
\* once.
C14_MaterializedOnce ==
    [][ /\ \A k \in ScalarKeys :
              /\ sp'[k].born <= 1
              /\ sp'[k].own <=> sp'[k].born = 1
              /\ sp[k].own => (sp'[k].own /\ KeepsSubs(sp[k].subs, sp'[k].subs))
              /\ (sp[k].own /\ got'.op = "write" /\ got'.kind = "scalar" /\ got'.k = k
                    /\ sp' # sp /\ ~got'.raised)
                 => \A i \in 1..Len(sp[k].subs) : got'.fired[i] = 1
        /\ \A c \in Cells :
              /\ cells'[c].born <= 1
              /\ cells'[c].mat <=> cells'[c].born = 1
              /\ cells[c].mat => (cells'[c].mat /\ KeepsSubs(cells[c].subs, cells'[c].subs))
              /\ (cells[c].mat /\ last'.op = "assign" /\ last'.c = c
                    /\ arrVars' # arrVars /\ ~last'.raised
                    /\ IsDifferent(cells[c].val, cells'[c].val))
                 => \A i \in 1..Len(cells[c].subs) : last'.fired[c][i] = 1 ]_vars

\* a scalar and an array property were each written again while they had a
\* subscriber: the cells are the ones made at the first write
C14_Witness ==
    /\ got.op = "write" /\ got.kind = "scalar" /\ got.k = "d" /\ ~got.raised
    /\ got.fired = <<1>> /\ sp["d"].val = AnObject /\ sp["d"].born = 1
    /\ cells[1].mat /\ cells[1].born = 1 /\ cells[1].subs = <<"count">>
    /\ IsArr(cells[1].val)

\* an object literal: the plain record of the deep mode
PlainRecord(o) == objs[o].alloc /\ objs[o].shape = "literal"

\* the record whose property b the path instance.p.a.b reads, when p holds a
\* plain record whose a holds a plain record with a property b; 0 otherwise
PathTarget ==
    IF dp.own /\ IsRef(dp.val) /\ PlainRecord(dp.val.n) /\ objs[dp.val.n].has["a"]
       /\ IsRef(objs[dp.val.n].val["a"]) /\ PlainRecord(objs[dp.val.n].val["a"].n)
       /\ objs[objs[dp.val.n].val["a"].n].has["b"]
    THEN objs[dp.val.n].val["a"].n
    ELSE 0

\* C15: once a nested plain record has been written to the deep scalar
\* property p, a write of a different value to p.a.b, with p itself not
\* assigned, runs the callback of every subscription over instance.p.a.b.
C15_NestedWriteNotifies ==
    [][\A o \in ObjIds :
          (/\ PathTarget = o
           /\ dseen'.op = "writeField"
           /\ dp' = dp
           /\ objs'[o].val["b"] # objs[o].val["b"])
          => \A i \in 1..Len(ws) : dseen'.calls[i] >= 1]_vars

\* instance.p = {a: {b: 1}} is being watched, and instance.p.a.b = 2 has just
\* run the callback
C15_Witness ==
    /\ dseen.op = "writeField"
    /\ PathTarget # 0 /\ PathTarget # dp.val.n
    /\ objs[PathTarget].val["b"] = Num(2)
    /\ ~objs[dp.val.n].has["b"] /\ ~objs[PathTarget].has["a"]
    /\ Len(ws) = 1 /\ ws[1].latest = Num(2) /\ dseen.calls = <<1>>

\* a non-null, non-array object whose own prototype is Object.prototype
GenericPrototype(o) ==
    /\ TypeOf(objs[o].shape) = "object" /\ ~IsArrayShape(objs[o].shape)
    /\ PrototypeOf(objs[o].shape) = "Object.prototype"

\* the object is the value of a deep cell: of p, or of a record's property
Stored(o) ==
    \/ dp.own /\ dp.val = Ref(o)
    \/ \E h \in ObjIds, f \in Fields :
          objs[h].alloc /\ objs[h].cell[f] # "none" /\ objs[h].val[f] = Ref(o)

\* C17: a value stored in deep mode has been walked (it carries the marker
\* and each of its own properties is a cell) if and only if it is a non-null,
\* non-array object whose own prototype is the generic object prototype; any
\* other value has no marker and none of its properties replaced.
C17_WalksIffGenericPrototype ==
    \A o \in ObjIds : objs[o].alloc =>
        /\ (Stored(o) /\ GenericPrototype(o))
              => (objs[o].marker /\ \A f \in Fields : objs[o].has[f] => objs[o].cell[f] # "none")
        /\ ~GenericPrototype(o)
              => (~objs[o].marker /\ \A f \in Fields : objs[o].cell[f] = "none")

\* the element is fully reactive: a plain record has the marker and each of
\* its own properties is a cell, an array is a materialized Exposed Array
FullyReactive(v) ==
    IF ~IsRef(v) THEN TRUE
    ELSE IF IsArrayShape(objs[v.n].shape) THEN objs[v.n].marker /\ objs[v.n].patched
    ELSE IF PlainRecord(v.n)
    THEN objs[v.n].marker /\ \A f \in Fields : objs[v.n].has[f] => objs[v.n].cell[f] # "none"
    ELSE TRUE

\* C16: every element of the array the deep array property holds, whether
\* it was there at assignment or entered through push, unshift, splice,
\* replace, set or a mutate callback, is fully reactive.
C16_ElementsFullyReactive ==
    (dq.own /\ IsRef(dq.val) /\ IsArrayShape(objs[dq.val.n].shape))
       => \A i \in 1..Len(objs[dq.val.n].elems) : FullyReactive(objs[dq.val.n].elems[i])

\* C18: the first read of a derived property on an instance makes one
\* memoized cell over the original getter bound to that instance and puts
\* it, with the original setter, in the instance's own accessor; every later
\* read goes through that cell and makes no other; no two instances share
\* a cell.
C18_OneCellPerInstance ==
    [][/\ \A i \in Insts, k \in ComputedKeys :
             (lseen'.op = "read" /\ lseen'.inst = i /\ lseen'.key = k) =>
                 /\ lseen'.ret = OriginalGet(k, xs[i])
                 /\ lseen'.via = acc'[i][k].cell
                 /\ IF acc[i][k].get = "none"
                    THEN /\ ncells'[i][k] = ncells[i][k] + 1
                         /\ acc'[i][k].get = "cell"
                         /\ acc'[i][k].set = acc[Prototype][k].set
                         /\ lseen'.ran
                    ELSE /\ ncells'[i][k] = ncells[i][k]
                         /\ acc'[i][k].cell = acc[i][k].cell
                         /\ lseen'.ran = acc[i][k].stale
       /\ \A i \in Insts, k \in ComputedKeys :
             (lseen'.op = "write" /\ lseen'.inst = i /\ lseen'.key = k) =>
                 /\ xs'[i] = lseen'.args[1]
                 /\ ncells' = ncells
                 /\ acc'[i][k].cell = acc[i][k].cell
       /\ \A i \in Insts, k \in ComputedKeys :
             /\ ncells'[i][k] <= 1
             /\ acc'[i][k].get = "cell" => acc'[i][k].cell = [this |-> i, key |-> k, n |-> 1]
       /\ \A k \in ComputedKeys : acc'[Prototype][k].get # "cell"
      ]_vars

\* both instances have read c, each through a cell of its own, and the last
\* read of instance 1 returned what its cell had, without running the getter
C18_Witness ==
    /\ lseen.op = "read" /\ lseen.inst = 1 /\ lseen.key = "c" /\ ~lseen.ran
    /\ lseen.via = [this |-> 1, key |-> "c", n |-> 1]
    /\ acc[1]["c"].get = "cell" /\ acc[2]["c"].get = "cell"
    /\ acc[1]["c"].cell # acc[2]["c"].cell
    /\ xs[1] # xs[2] /\ lseen.ret = OriginalGet("c", xs[1])

\* C19: @computed on a key whose descriptor has no getter raises an error
\* that names the key, while the class is being defined and no instance
\* exists, and leaves the prototype's accessor as it was.
C19_NoGetterRaises ==
    [][\A k \in ComputedKeys :
          (lseen'.op = "decorate" /\ lseen'.key = k /\ acc[Prototype][k].get = "none") =>
              /\ lseen'.raised /\ lseen'.names = k
              /\ acc' = acc
              /\ phase = "defining" /\ phase' = "failed"
              /\ \A i \in Insts, j \in ComputedKeys :
                    ncells'[i][j] = 0 /\ acc'[i][j] = NoAccessor
      ]_vars

\* c was decorated, and the decoration of c2, a setter without getter, raised
C19_Witness ==
    /\ lseen.op = "decorate" /\ lseen.raised /\ lseen.names = "c2" /\ lseen.key = "c2"
    /\ acc[Prototype]["c"].get = "upgrade"
    /\ acc[Prototype]["c2"].get = "none" /\ acc[Prototype]["c2"].set = "original"
    /\ phase = "failed"

\* the subscriptions of instance i's event that are registered and not
\* disposed, in subscription order
LiveSubs(i) == SelectSeq(UpTo(Len(evt[i].subs)), LAMBDA j : ~evt[i].subs[j].disposed)

RECURSIVE DeliveriesTo(_, _)
\* one delivery of the argument list to each subscription of the list
DeliveriesTo(list, args) ==
    IF list = <<>> THEN <<>>
    ELSE <<[to |-> Head(list), args |-> args]>> \o DeliveriesTo(Tail(list), args)

\* the first read of the event property installs one callable, and every
\* later read, call or subscribe finds the same one
StableCallable ==
    \A i \in Insts :
        (lseen'.op \in {"readEvent", "call", "subscribe"} /\ lseen'.inst = i) =>
            /\ evt'[i].own /\ evt'[i].made = 1
            /\ lseen'.fn = evt'[i].fn
            /\ evt[i].own => evt'[i].fn = evt[i].fn

\* nothing is kept for later: a subscribe, a read or a dispose delivers nothing
NoBuffering == lseen'.op # "call" => lseen'.delivered = <<>>

\* C20 as stated: a call delivers its argument list to exactly the
\* subscribers registered and not disposed at the time of the call.
C20_AsStated ==
    [][/\ StableCallable
       /\ NoBuffering
       /\ \A i \in Insts :
             (lseen'.op = "call" /\ lseen'.inst = i) =>
                 lseen'.delivered = DeliveriesTo(LiveSubs(i), lseen'.args)
      ]_vars

\* C20, amended: a call delivers its argument list, unchanged, in
\* subscription order and at most once each, to subscribers registered and
\* not disposed at the time of the call; one of them is left out only when
\* it was disposed during the call before its turn, or when a callback
\* before it threw, which ends the delivery and raises.
C20_Amended ==
    [][/\ StableCallable
       /\ NoBuffering
       /\ \A i \in Insts :
             (lseen'.op = "call" /\ lseen'.inst = i) =>
                 LET recv == lseen'.delivered IN
                 /\ \A n \in 1..Len(recv) :
                       /\ recv[n].args = lseen'.args
                       /\ \E m \in 1..Len(LiveSubs(i)) : LiveSubs(i)[m] = recv[n].to
                       /\ n > 1 => recv[n - 1].to < recv[n].to
                 /\ \A m \in 1..Len(LiveSubs(i)) :
                       \/ \E n \in 1..Len(recv) : recv[n].to = LiveSubs(i)[m]
                       \/ evt'[i].subs[LiveSubs(i)[m]].disposed
                       \/ lseen'.raised /\ recv[Len(recv)].to < LiveSubs(i)[m]
                 /\ lseen'.raised =>
                       Len(recv) > 0 /\ evt[i].subs[recv[Len(recv)].to].cb = "throw"
      ]_vars

\* a call with two arguments reached the one subscriber that was registered
\* and not disposed, and not the one disposed before the call
C20_Witness ==
    /\ lseen.op = "call" /\ lseen.args = <<2, 1>> /\ ~lseen.raised
    /\ evt[lseen.inst].made = 1 /\ Len(evt[lseen.inst].subs) = 2
    /\ evt[lseen.inst].subs[1].disposed /\ evt[lseen.inst].subs[1].cb = "log"
    /\ lseen.delivered = <<[to |-> 2, args |-> <<2, 1>>]>>

\* C21: subscribe(expr, cb, {event: "arrayChange"}) raises the
\* invalid-array-subscription error when expr evaluates to a scalar, to a
\* plain array or to a detached array, and then makes no subscription and
\* no hidden cell; when expr evaluates to an Exposed Array it returns a
\* subscription of the backing array cell and makes no hidden cell.
C21_ArrayChangeNeedsExposedArray ==
    [][ last'.op = "subscribe" =>
          IF IsArr(last'.a) /\ Holder(last'.a) # {}
          THEN /\ ~last'.raised
               /\ Len(hs') = Len(hs) + 1
               /\ hs'[Len(hs')].src = "array" /\ ~hs'[Len(hs')].active
               /\ \A i \in 1..Len(hs) : hs'[i] = hs[i]
               /\ \A c \in Cells :
                     cells'[c] = IF c \in Holder(last'.a)
                                 THEN [cells[c] EXCEPT !.asubs = @ + 1]
                                 ELSE cells[c]
          ELSE /\ last'.raised /\ last'.error = "invalidArray"
               /\ hs' = hs /\ cells' = cells ]_vars

\* the subscription has been refused for an array that a property held and
\* no longer holds, while another subscription is on the cell that holds
\* the array the property has now
C21_Witness ==
    /\ last.op = "subscribe" /\ last.raised /\ last.error = "invalidArray"
    /\ IsArr(last.a) /\ heap[last.a].stripped
    /\ \E c \in Cells : cells[c].mat /\ IsArr(cells[c].val) /\ cells[c].asubs = 1
    /\ Len(hs) = 1 /\ hs[1].src = "array"

\* C22: a write that changes the value of a reactive property has, when it
\* returns, run the callback of every subscription that was registered on
\* the property through subscribe(...), and has entered them in the order
\* in which they were subscribed.
C22_WriteNotifiesAllInOrder ==
    seen.op = "write" =>
        /\ \A k \in 1..Len(seen.live) : IndexOf(seen.ran, seen.live[k]) # 0
        /\ \A k \in 1..Len(seen.live) : \A l \in (k + 1)..Len(seen.live) :
              IndexOf(seen.ran, seen.live[k]) < IndexOf(seen.ran, seen.live[l])

\* C23: unwrap(instance, key) of a declared reactive, derived or event
\* property returns the cell of the property and does not raise, whether or
\* not the property has been written or read on the instance before.
C23_UnwrapReturnsCell ==
    unw.kind # "none" => (~unw.raised /\ unw.ret = "cell")

(* C24: on an exposed array of length n, set(i, x) with 0 <= i < n returns *)
(* the element that was at index i and leaves the array with x at index i, *)
(* every other element and the length as they were, which is what the      *)
(* single call splice(i, 1, x) leaves; the cell still holds the array.     *)
C24_SetIsSpliceOfOne ==
    [][(/\ last'.op = "call" /\ last'.m = "set"
        /\ heap[last'.a].marker
        /\ last'.args[1] \in 0..(Len(heap[last'.a].elems) - 1))
       => /\ ~last'.raised
          /\ last'.ret = [t |-> "num", n |-> heap[last'.a].elems[last'.args[1] + 1]]
          /\ Len(heap'[last'.a].elems) = Len(heap[last'.a].elems)
          /\ \A j \in 1..Len(heap[last'.a].elems) :
                heap'[last'.a].elems[j] =
                    IF j = last'.args[1] + 1 THEN last'.args[2]
                    ELSE heap[last'.a].elems[j]
          /\ heap'[last'.a].elems =
                NativeArr("splice", <<last'.args[1], 1, last'.args[2]>>,
                          heap[last'.a].elems)
          /\ cells'[heap[last'.a].closure].val = last'.a]_vars

\* set has replaced an element of an exposed array by a different one, in
\* the middle of it
C24_Witness ==
    /\ last.op = "call" /\ last.m = "set" /\ ~last.raised
    /\ heap[last.a].marker
    /\ last.args[1] = 1 /\ Len(heap[last.a].elems) = MaxLen
    /\ last.ret.t = "num" /\ last.ret.n # last.args[2]

\* the call changes the array it is made on
Modifies(m, args, s) ==
    CASE m = "set" -> args[1] < Len(s)
      [] m = "replace" -> IndexOf(s, args[1]) # 0
      [] m = "remove" -> IndexOf(s, args[1]) # 0
      [] m = "removeAll" -> IF args = <<>> THEN s # <<>> ELSE IndexOf(s, args[1]) # 0
      [] OTHER -> TRUE

(* C25: a call of set, replace, remove, removeAll or mutate on an exposed  *)
(* array that modifies it fires exactly one change notification and        *)
(* exactly one beforeChange notification of the cell.                      *)
C25_OneNotificationPerStructuralCall ==
    [][(/\ last'.op = "call" /\ last'.m \in CellMethods
        /\ heap[last'.a].marker
        /\ Modifies(last'.m, last'.args, heap[last'.a].elems))
       => /\ ~last'.raised
          /\ last'.changed[heap[last'.a].closure] = 1
          /\ last'.before[heap[last'.a].closure] = 1]_vars

(* C26: push, pop, shift, unshift, splice, reverse and sort on an exposed  *)
(* array return what the native method returns on a plain array with the   *)
(* same contents and arguments.                                            *)
C26_ReturnsWhatNativeReturns ==
    [][(/\ last'.op = "call" /\ last'.m \in Methods
        /\ heap[last'.a].marker)
       => /\ ~last'.raised
          /\ last'.ret = NativeRet(last'.m, last'.args, heap[last'.a].elems)]_vars

(* C27: while the cell performs an internal write, no call the cell makes  *)
(* on the array finds an override that enters the cell again, and every    *)
(* intercepted call and property assignment ends without exhausting the    *)
(* stack.                                                                  *)
C27_CellCallsFallThrough ==
    last.op \in {"call", "assign"}
        => ~last.reentered /\ last.error # "RangeError"

(* C29: a call of a native method made on the exposed array by a           *)
(* subscriber of its cell, while the cell notifies, returns and fires      *)
(* exactly one change notification of the cell.                            *)
C29_NestedCallNotifiesOnce ==
    last.op \in {"call", "assign"}
        => \A n \in last.nested :
              n.m \in Methods => ~n.raised /\ n.changed = 1

(* C30: from the moment an intercepted call or a property assignment hands *)
(* control to the cell until the cell operation returns, insideObsArray is *)
(* true: no cell operation starts or ends with the flag false.             *)
C30_FlagHeldDuringInternalWrite ==
    last.op \in {"call", "assign"} => ~last.lowered

(* C28: deep materialization ends on every graph of records, cyclic ones   *)
(* included, and walks each record at most once: a record that carries the *)
(* marker is not walked again and keeps the cells its properties have.     *)
C28_EachRecordWalkedOnce ==
    [][\A o \in ObjIds :
          /\ objs'[o].walked <= 1
          /\ (objs[o].marker /\ ~IsArrayShape(objs[o].shape))
                => /\ objs'[o].marker
                   /\ objs'[o].walked = objs[o].walked
                   /\ \A f \in Fields :
                         objs[o].cell[f] # "none" => objs'[o].cell[f] = objs[o].cell[f]]_vars

\* a write has walked a record and come back to it while walking it, and
\* has returned
C28_Witness ==
    /\ dseen.op \in {"writeP", "writeField"} /\ dseen.cycle /\ ~dseen.raised
    /\ \E o \in ObjIds : objs[o].walked = 1 /\ objs[o].val["a"] = Ref(o)
                          /\ objs[o].cell["a"] = "scalar"

\* the first registration prototype p made itself, 0 when it made none
FirstOwn(p) ==
    IF \E n \in 1..Len(regs) : regs[n].p = p
    THEN CHOOSE n \in 1..Len(regs) :
            regs[n].p = p /\ \A j \in 1..(n - 1) : regs[j].p # p
    ELSE 0

\* registration n is in the table the instances of p get: p made it, or the
\* parent's table holds it and p had made no registration of its own yet
RECURSIVE InTable(_, _)
InTable(p, n) ==
    IF p = "none" THEN FALSE
    ELSE \/ regs[n].p = p
         \/ InTable(Parent(p), n) /\ (FirstOwn(p) = 0 \/ n < FirstOwn(p))

(* C33: the extender table of a subclass prototype is the copy taken at    *)
(* its first own registration: a cell of its instances gets, in            *)
(* registration order, its own extenders and the inherited ones registered *)
(* before that moment, and not the ones registered on an ancestor later;   *)
(* a class that never registered gets every registration of its            *)
(* ancestors' table, and base instances get every base registration.       *)
C33_TableIsSnapshot ==
    made.p # "none" =>
        made.applied = SelectSeq(UpTo(Len(regs)),
                                 LAMBDA n : regs[n].k = made.k /\ InTable(made.p, n))

\* the subclass registered for another key, the base class then registered
\* for k twice: the cell for k of a subclass instance has no extender
C33_Witness ==
    /\ made.p = "Sub" /\ made.k = "k"
    /\ Len(regs) = 3
    /\ regs[1] = [p |-> "Sub", k |-> "k2"]
    /\ regs[2] = [p |-> "Base", k |-> "k"]
    /\ regs[3] = [p |-> "Base", k |-> "k"]
    /\ made.applied = <<>>
    /\ Extenders("Base", "k") = <<2, 3>> /\ Extenders("Sib", "k") = <<2, 3>>

\* the options decorator i was made with, as conditions
GivenTo(i) ==
    IF decs[i].kind = "observable"
    THEN ObservableDecoratorOn(decs[i], i)
    ELSE ComputedDecoratorOn(decs[i], i)

(* C31: a decorator returned by observable(options), observableArray(options) *)
(* or computed(options) gives the property it is applied to the options of    *)
(* the call that returned it, whatever calls were made in between.            *)
C31_AppliesItsOwnOptions ==
    dapp.by # 0 => dapp = GivenTo(dapp.by)

\* the array the scalar cell of property k holds, 0 when it holds none
HeldArray(k) == IF sp[k].own /\ IsArrayValue(sp[k].val) THEN sp[k].val - 10 ELSE 0

\* no array cell holds array a
NotExposed(a) == \A c \in Cells : cells[c].val # a

====
